---------------------------- MODULE Spec2Model ----------------------------
(***************************************************************************)
(* Model of the volume-generation bot (epowerx_on_base):                   *)
(*   - the Order Sizing Guard, computeSafeOrderSizeUSD, in its two         *)
(*     revisions (src/unnamed/part_003),                                   *)
(*   - the Maintainer cycle placeVolumeOrders with placeBuyOrder /         *)
(*     placeSellOrder (src/unnamed/part_002) driven by the order timer,    *)
(*   - the exchange client's order formatting                              *)
(*     (src/src/services/biconomy-exchange.service.ts).                    *)
(* JavaScript numbers are modelled as exact rationals <<n, d>>, d > 0,     *)
(* in lowest terms.                                                        *)
(***************************************************************************)
EXTENDS Integers, Sequences, FiniteSets, TLC

(***************************************************************************)
(* Rational arithmetic                                                     *)
(***************************************************************************)
RECURSIVE GCD(_, _)
GCD(a, b) == IF b = 0 THEN a ELSE GCD(b, a % b)

Abs(x) == IF x < 0 THEN -x ELSE x

\* the rational n/d in lowest terms with a positive denominator
R(n, d) ==
    LET s == IF d < 0 THEN -1 ELSE 1
        g == GCD(Abs(n), Abs(d))
    IN  <<(s * n) \div g, (s * d) \div g>>

RInt(k) == <<k, 1>>
RZero == <<0, 1>>
RNeg(x) == <<-x[1], x[2]>>
\* sums and comparisons go through the least common denominator, products are
\* cross-reduced first, so that intermediate integers stay small
RAdd(x, y) ==
    LET g == GCD(x[2], y[2])
    IN  R(x[1] * (y[2] \div g) + y[1] * (x[2] \div g), (x[2] \div g) * y[2])
RSub(x, y) == RAdd(x, RNeg(y))
RMul(x, y) ==
    LET g1 == GCD(Abs(x[1]), y[2])
        g2 == GCD(Abs(y[1]), x[2])
    IN  R((x[1] \div g1) * (y[1] \div g2), (x[2] \div g2) * (y[2] \div g1))
RInv(y) == IF y[1] < 0 THEN <<-y[2], -y[1]>> ELSE <<y[2], y[1]>>
RDiv(x, y) == RMul(x, RInv(y))
RLt(x, y) ==
    LET g == GCD(x[2], y[2])
    IN  x[1] * (y[2] \div g) < y[1] * (x[2] \div g)
RLe(x, y) ==
    LET g == GCD(x[2], y[2])
    IN  x[1] * (y[2] \div g) <= y[1] * (x[2] \div g)
RMin(x, y) == IF RLe(x, y) THEN x ELSE y
RMax(x, y) == IF RLe(x, y) THEN y ELSE x
\* Math.floor
RFloor(x) == x[1] \div x[2]
RAbs(x) == <<Abs(x[1]), x[2]>>

\* an absent optional argument (JavaScript undefined)
Undef == <<>>
\* x ?? def
OrDefault(x, def) == IF x = Undef THEN def ELSE x


(***************************************************************************)
(* Order Sizing Guard: computeSafeOrderSizeUSD                             *)
(* The options record carries every argument; an argument the caller      *)
(* leaves out is Undef.  Revision A (part_003 lines 124-184) takes the     *)
(* minimum order size as an optional argument; revision B (lines 213-287)  *)
(* reads it from the process-wide configuration object.                    *)
(***************************************************************************)
GuardResult(allowed, perOrderUSD, usableUSD, reason) ==
    [allowed |-> allowed, perOrderUSD |-> perOrderUSD,
     usableUSD |-> usableUSD, reason |-> reason]

\* defaults of the destructuring / of the ?? operators
DefaultFeeBufferUSD == R(1, 2)
DefaultMinFreeUSD == RInt(1)
DefaultOrderSizePercent == R(4, 5)
DefaultMaxOrderUSDCap == RInt(10)

\* Math.max(0, freeUSDT - feeBufferUSD - reservedForActiveOrdersUSD)
UsableUSD(freeUSDT, feeBufferUSD, reserved) ==
    RMax(RZero, RSub(RSub(freeUSDT, feeBufferUSD), reserved))

\* PerOrderUSD dividing by totalOrdersToPlace + 1 instead of max(1, totalOrdersToPlace)
PerOrderUSD_CountPlusOne(usableUSD, orderSizePercent, maxOrderUSDCap, totalOrdersToPlace) ==
    RMin(maxOrderUSDCap,
         RDiv(RMul(usableUSD, orderSizePercent), RInt(totalOrdersToPlace + 1)))

\* PerOrderUSD without the division by the number of orders
PerOrderUSD_Undivided(usableUSD, orderSizePercent, maxOrderUSDCap, totalOrdersToPlace) ==
    RMin(maxOrderUSDCap, RMul(usableUSD, orderSizePercent))

\* PerOrderUSD with Math.max in the place of Math.min
PerOrderUSD_MaxOfCap(usableUSD, orderSizePercent, maxOrderUSDCap, totalOrdersToPlace) ==
    LET ordersCount == IF totalOrdersToPlace < 1 THEN 1 ELSE totalOrdersToPlace
    IN  RMax(maxOrderUSDCap,
             RDiv(RMul(usableUSD, orderSizePercent), RInt(ordersCount)))

\* Math.min(maxOrderUSDCap, (usableUSD * orderSizePercent) / Math.max(1, totalOrdersToPlace))
PerOrderUSD(usableUSD, orderSizePercent, maxOrderUSDCap, totalOrdersToPlace) ==
    LET ordersCount == IF totalOrdersToPlace < 1 THEN 1 ELSE totalOrdersToPlace
    IN  RMin(maxOrderUSDCap,
             RDiv(RMul(usableUSD, orderSizePercent), RInt(ordersCount)))

\* revision A with the zero-size check ahead of the minimum-order-size check
computeSafeOrderSizeUSD_A_ZeroFirst(o) ==
    LET reserved == OrDefault(o.reservedForActiveOrdersUSD, RZero)
        feeBufferUSD == OrDefault(o.feeBufferUSD, DefaultFeeBufferUSD)
        minFreeUSD == OrDefault(o.minFreeUSD, DefaultMinFreeUSD)
        orderSizePercent == OrDefault(o.orderSizePercent, DefaultOrderSizePercent)
        maxOrderUSDCap == OrDefault(o.maxOrderUSDCap, DefaultMaxOrderUSDCap)
        minOrderSize == o.minOrderSize
        usableUSD == UsableUSD(o.freeUSDT, feeBufferUSD, reserved)
        perOrderUSD == PerOrderUSD(usableUSD, orderSizePercent, maxOrderUSDCap,
                                   o.totalOrdersToPlace)
    IN  IF RLe(o.freeUSDT, minFreeUSD)
        THEN GuardResult(FALSE, RZero, usableUSD, "insufficient_free")
        ELSE IF RLe(perOrderUSD, RZero)
        THEN GuardResult(FALSE, RZero, usableUSD, "insufficient_usable_balance")
        ELSE IF minOrderSize # Undef /\ RLt(perOrderUSD, minOrderSize)
        THEN GuardResult(FALSE, RZero, usableUSD, "below_min_order_size")
        ELSE GuardResult(TRUE, perOrderUSD, usableUSD, "none")

\* revision A
computeSafeOrderSizeUSD_A(o) ==
    LET reserved == OrDefault(o.reservedForActiveOrdersUSD, RZero)
        feeBufferUSD == OrDefault(o.feeBufferUSD, DefaultFeeBufferUSD)
        minFreeUSD == OrDefault(o.minFreeUSD, DefaultMinFreeUSD)
        orderSizePercent == OrDefault(o.orderSizePercent, DefaultOrderSizePercent)
        maxOrderUSDCap == OrDefault(o.maxOrderUSDCap, DefaultMaxOrderUSDCap)
        minOrderSize == o.minOrderSize
        usableUSD == UsableUSD(o.freeUSDT, feeBufferUSD, reserved)
        perOrderUSD == PerOrderUSD(usableUSD, orderSizePercent, maxOrderUSDCap,
                                   o.totalOrdersToPlace)
    IN  IF RLe(o.freeUSDT, minFreeUSD)
        THEN GuardResult(FALSE, RZero, usableUSD, "insufficient_free")
        ELSE IF minOrderSize # Undef /\ RLt(perOrderUSD, minOrderSize)
        THEN GuardResult(FALSE, RZero, usableUSD, "below_min_order_size")
        ELSE IF RLe(perOrderUSD, RZero)
        THEN GuardResult(FALSE, RZero, usableUSD, "insufficient_usable_balance")
        ELSE GuardResult(TRUE, perOrderUSD, usableUSD, "none")

\* revision B with freeUSDT < minFreeUSD in the place of freeUSDT <= minFreeUSD
computeSafeOrderSizeUSD_B_StrictThreshold(o, configMinOrderSize) ==
    LET reserved == OrDefault(o.reservedForActiveOrdersUSD, RZero)
        feeBufferUSD == OrDefault(o.feeBufferUSD, DefaultFeeBufferUSD)
        minFreeUSD == OrDefault(o.minFreeUSD, DefaultMinFreeUSD)
        orderSizePercent == OrDefault(o.orderSizePercent, DefaultOrderSizePercent)
        maxOrderUSDCap == OrDefault(o.maxOrderUSDCap, DefaultMaxOrderUSDCap)
        usableUSD == UsableUSD(o.freeUSDT, feeBufferUSD, reserved)
        perOrderUSD == PerOrderUSD(usableUSD, orderSizePercent, maxOrderUSDCap,
                                   o.totalOrdersToPlace)
    IN  IF RLt(o.freeUSDT, minFreeUSD)
        THEN GuardResult(FALSE, RZero, RZero, "insufficient_free")
        ELSE IF RLe(usableUSD, RZero)
        THEN GuardResult(FALSE, RZero, RZero, "insufficient_after_reservations")
        ELSE IF RLt(perOrderUSD, configMinOrderSize)
        THEN GuardResult(FALSE, RZero, usableUSD, "below_min_order_size")
        ELSE GuardResult(TRUE, perOrderUSD, usableUSD, "none")

\* revision B; configMinOrderSize is config.volumeStrategy.minOrderSize at the call
computeSafeOrderSizeUSD_B(o, configMinOrderSize) ==
    LET reserved == OrDefault(o.reservedForActiveOrdersUSD, RZero)
        feeBufferUSD == OrDefault(o.feeBufferUSD, DefaultFeeBufferUSD)
        minFreeUSD == OrDefault(o.minFreeUSD, DefaultMinFreeUSD)
        orderSizePercent == OrDefault(o.orderSizePercent, DefaultOrderSizePercent)
        maxOrderUSDCap == OrDefault(o.maxOrderUSDCap, DefaultMaxOrderUSDCap)
        usableUSD == UsableUSD(o.freeUSDT, feeBufferUSD, reserved)
        perOrderUSD == PerOrderUSD(usableUSD, orderSizePercent, maxOrderUSDCap,
                                   o.totalOrdersToPlace)
    IN  IF RLe(o.freeUSDT, minFreeUSD)
        THEN GuardResult(FALSE, RZero, RZero, "insufficient_free")
        ELSE IF RLe(usableUSD, RZero)
        THEN GuardResult(FALSE, RZero, RZero, "insufficient_after_reservations")
        ELSE IF RLt(perOrderUSD, configMinOrderSize)
        THEN GuardResult(FALSE, RZero, usableUSD, "below_min_order_size")
        ELSE GuardResult(TRUE, perOrderUSD, usableUSD, "none")


(***************************************************************************)
(* Exchange client: number formatting of placeOrder                        *)
(* (src/src/services/biconomy-exchange.service.ts lines 201-275)           *)
(***************************************************************************)
RECURSIVE Pow10(_)
Pow10(k) == IF k = 0 THEN 1 ELSE 10 * Pow10(k - 1)

\* k further decimal digits of r/d after the integer part acc: <<digits, remainder>>
RECURSIVE Digits(_, _, _, _)
Digits(r, d, k, acc) ==
    IF k = 0 THEN <<acc, r>>
    ELSE Digits((r * 10) % d, d, k - 1, acc * 10 + (r * 10) \div d)

\* Number.prototype.toFixed(k): the decimal with k digits nearest to x, a tie
\* going away from zero; the value of the string is returned
ToFixed(x, k) ==
    LET n == Abs(x[1])
        dg == Digits(n % x[2], x[2], k, n \div x[2])
        m == IF 2 * dg[2] >= x[2] THEN dg[1] + 1 ELSE dg[1]
    IN  R(IF x[1] < 0 THEN -m ELSE m, Pow10(k))

\* the exponent of Number.prototype.toExponential(), x # 0
RECURSIVE Exponent10(_, _)
Exponent10(x, e) ==
    IF RLe(RInt(10), RAbs(x)) THEN Exponent10(RDiv(x, RInt(10)), e + 1)
    ELSE IF RLt(RAbs(x), RInt(1)) THEN Exponent10(RMul(x, RInt(10)), e - 1)
    ELSE e

\* amountStr = amount >= 1 ? Math.floor(amount).toString() : amount.toFixed(8)
FormatAmount(amount) ==
    IF RLe(RInt(1), amount) THEN RInt(RFloor(amount)) ELSE ToFixed(amount, 8)

\* priceStr: toFixed(8), or toFixed(|exponent| + 3) for a price below 0.00000001
FormatPrice(price) ==
    IF price = RZero THEN RZero
    ELSE IF RLt(price, R(1, Pow10(8)))
    THEN ToFixed(price, Abs(Exponent10(price, 0)) + 3)
    ELSE ToFixed(price, 8)


(***************************************************************************)
(* Maintainer: the pure parts of placeVolumeOrders (src/unnamed/part_002)  *)
(***************************************************************************)
targetOrdersPerSide == 30
washTradePairs == 5
discountPercent == 5
\* the page size getOpenOrders asks for when called with the symbol alone
OpenOrdersLimit == 10

\* dexPriceUSD * (1 - discountPercent / 100)
DiscountedPrice(dexPriceUSD) ==
    RMul(dexPriceUSD, RSub(RInt(1), R(discountPercent, 100)))

\* Math.min(availableUSDT * 0.8 / Math.max(totalOrdersNeeded, 1), 10)
SafeOrderSizeUSD(availableUSDT) ==
    LET totalOrdersNeeded == targetOrdersPerSide * 2
        ordersCount == IF totalOrdersNeeded < 1 THEN 1 ELSE totalOrdersNeeded
    IN  RMin(RDiv(RMul(availableUSDT, R(4, 5)), RInt(ordersCount)), RInt(10))

\* line 277 without the stagger: every buy 1% below the reference
BuyPrice_Unstaggered(priceReference, i) ==
    RMul(priceReference, RSub(RInt(1), R(1, 100)))

\* priceReference * (1 - 0.01 - i * 0.0002)
BuyPrice(priceReference, i) ==
    RMul(priceReference, RSub(RSub(RInt(1), R(1, 100)), R(2 * i, 10000)))

\* priceReference * (1 + 0.01 + i * 0.0002)
SellPrice(priceReference, i) ==
    RMul(priceReference, RAdd(RAdd(RInt(1), R(1, 100)), R(2 * i, 10000)))

NoId == <<>>

\* the arguments of the placement call a cycle is in: the staggered price of the
\* book-depth loops, the reference price of the wash loop
PlacementPrice(r) ==
    IF r.phase = "wash" THEN r.priceReference
    ELSE IF r.side = "BUY" THEN BuyPrice(r.priceReference, r.i)
    ELSE SellPrice(r.priceReference, r.i)

PlacementAmount(r) == RDiv(r.safeOrderSizeUSD, PlacementPrice(r))

\* control after the wash loop: the second sell loop (lines 312-322), or the end
AfterWash(r) ==
    IF r.sells < targetOrdersPerSide
    THEN [r EXCEPT !.pc = "getBalances", !.phase = "sells", !.i = 0, !.side = "SELL",
                   !.buyOrderId = NoId]
    ELSE [r EXCEPT !.pc = "done", !.phase = "none", !.side = "none", !.i = 0,
                   !.buyOrderId = NoId]

\* entry of the wash loop (lines 296-299)
EnterWash(r) ==
    IF washTradePairs > 0
    THEN [r EXCEPT !.pc = "getBalances", !.phase = "wash", !.i = 0, !.side = "BUY",
                   !.pairs = 0]
    ELSE AfterWash([r EXCEPT !.pairs = 0])

\* control after the book-depth buy loop: the book-depth sell loop (lines 284-293)
AfterBookBuys(r) ==
    IF r.sells < targetOrdersPerSide
    THEN [r EXCEPT !.pc = "getBalances", !.phase = "bookSells", !.i = 0, !.side = "SELL"]
    ELSE EnterWash(r)

\* control after the sizing (lines 274-283)
AfterSizing(r) ==
    IF r.buys < targetOrdersPerSide
    THEN [r EXCEPT !.pc = "getBalances", !.phase = "bookBuys", !.i = 0, !.side = "BUY"]
    ELSE AfterBookBuys(r)

\* the cycle after a placement call returned id (NoId: undefined)
AfterPlacement(r, id) ==
    IF r.phase = "bookBuys"
    THEN IF r.i + 1 < targetOrdersPerSide - r.buys
         THEN [r EXCEPT !.pc = "getBalances", !.i = r.i + 1]
         ELSE AfterBookBuys(r)
    ELSE IF r.phase = "bookSells"
    THEN IF r.i + 1 < targetOrdersPerSide - r.sells
         THEN [r EXCEPT !.pc = "getBalances", !.i = r.i + 1]
         ELSE EnterWash(r)
    ELSE IF r.phase = "wash"
    THEN IF r.side = "BUY"
         THEN [r EXCEPT !.pc = "getBalances", !.side = "SELL", !.buyOrderId = id]
         ELSE IF r.i + 1 < washTradePairs
         THEN [r EXCEPT !.pc = "getBalances", !.side = "BUY", !.i = r.i + 1,
                        !.buyOrderId = NoId,
                        !.pairs = IF r.buyOrderId # NoId /\ id # NoId THEN @ + 1 ELSE @]
         ELSE AfterWash([r EXCEPT !.pairs = IF r.buyOrderId # NoId /\ id # NoId
                                            THEN @ + 1 ELSE @])
    ELSE IF r.i + 1 < targetOrdersPerSide - r.sells
    THEN [r EXCEPT !.pc = "getBalances", !.i = r.i + 1]
    ELSE [r EXCEPT !.pc = "done", !.phase = "none", !.side = "none", !.i = 0]

\* this.washTradePairsActive after a placement call returned id: emptied on entry
\* of the wash loop (line 298), a pair pushed when both legs returned an id (305-308)
PairsAfterPlacement(r, id, pairs) ==
    LET entersWash == r.phase \in {"bookBuys", "bookSells"}
                      /\ AfterPlacement(r, id).phase \in {"wash", "sells", "none"}
    IN  IF entersWash THEN <<>>
        ELSE IF r.phase = "wash" /\ r.side = "SELL" /\ r.buyOrderId # NoId /\ id # NoId
        THEN Append(pairs, [buyOrderId |-> r.buyOrderId, sellOrderId |-> id,
                            price |-> r.priceReference,
                            amount |-> PlacementAmount(r)])
        ELSE pairs


(***************************************************************************)
(* State                                                                   *)
(***************************************************************************)
VARIABLES
    options,          \* the argument of the Guard calls of this behaviour
    configMinOrderSize, \* config.volumeStrategy.minOrderSize (mutable object field)
    lastCall,         \* the latest Guard call: revision, result, configuration read
    prevCall,         \* the Guard call before it
    isRunning,        \* this.isRunning
    orderTimer,       \* this.orderTimer is armed
    cyc,              \* the invocations of the order-timer callback, in firing order:
                      \* position (pc, phase, i, side) and locals of placeVolumeOrders
    activeOrders,     \* keys of this.activeOrders (its values are never read)
    orderPrices,      \* this.orderPrices: orderId -> [side, price]
    volumeStats,      \* this.volumeStats: totalVolume, buyVolume, sellVolume, orderCount
    washTrades,       \* this.profitStats.washTrades
    washTradePairsActive, \* this.washTradePairsActive
    currentPosition,  \* this.currentPosition
    updateTimer,      \* this.updateTimer is armed
    orderStatusIndex, \* this.orderStatusIndex
    trk,              \* the invocations of the monitoring callback, in order of firing
    realFills,        \* this.profitStats.realFills
    starting,         \* the calls of start() in order of arrival: their position
    unreferenced,     \* armed interval timers that no field of the strategy holds
    exFreeUSDT,       \* exchange account: free USDT
    exFreeEPWX,       \* exchange account: free EPWX
    exOrders,         \* exchange account: pending orders [orderId, side, lock]
    dexFeed,          \* what the price oracle answers in this behaviour
    ticksLeft,        \* firings of the order timer still to come in this behaviour
    exEvents          \* exchange failures and immediate matches still to come

guardVars == <<options, configMinOrderSize, lastCall, prevCall>>

botVars == <<isRunning, orderTimer, cyc, activeOrders, orderPrices, volumeStats,
             washTrades, washTradePairsActive, currentPosition>>

monVars == <<updateTimer, orderStatusIndex, trk, realFills>>

envVars == <<exFreeUSDT, exFreeEPWX, exOrders, dexFeed, ticksLeft, exEvents>>

lifeVars == <<starting, unreferenced>>

vars == <<guardVars, botVars, monVars, lifeVars, envVars>>

\* the Maintainer before start(), on an empty account
IdleMaintainer ==
    /\ isRunning = FALSE
    /\ orderTimer = FALSE
    /\ cyc = <<>>
    /\ activeOrders = {}
    /\ orderPrices = <<>>
    /\ volumeStats = [totalVolume |-> RZero, buyVolume |-> RZero,
                      sellVolume |-> RZero, orderCount |-> 0]
    /\ washTrades = 0
    /\ washTradePairsActive = <<>>
    /\ currentPosition = RZero
    /\ updateTimer = FALSE
    /\ orderStatusIndex = 0
    /\ trk = <<>>
    /\ realFills = 0
    /\ starting = <<>>
    /\ unreferenced = [orderTimers |-> 0, updateTimers |-> 0]

(***************************************************************************)
(* Guard calls on bounded inputs                                           *)
(***************************************************************************)
MaxFreeHalves == 5
MaxOrdersToPlace == 2
MaxReservedUSD == 1

FreeVals == {R(k, 2) : k \in 0..MaxFreeHalves}
ReservedVals == {Undef} \cup {RInt(k) : k \in 0..MaxReservedUSD}
FeeBufferVals == {Undef, RInt(1)}
MinFreeVals == {Undef, RInt(2)}
PercentVals == {Undef, RZero, RInt(1)}
CapVals == {Undef, RZero, R(1, 2)}
MinOrderSizeVals == {Undef, RZero, R(1, 4)}
\* MIN_ORDER_SIZE of the environment; 50 is the default of config/index.ts
ConfigMinVals == {R(1, 4), RInt(50)}

NoCall == [rev |-> "none", out |-> GuardResult(FALSE, RZero, RZero, "none"),
           configMin |-> RZero]

GuardOptions ==
    [freeUSDT : FreeVals,
     totalOrdersToPlace : 0..MaxOrdersToPlace,
     reservedForActiveOrdersUSD : ReservedVals,
     feeBufferUSD : FeeBufferVals,
     minFreeUSD : MinFreeVals,
     orderSizePercent : PercentVals,
     maxOrderUSDCap : CapVals,
     minOrderSize : MinOrderSizeVals]

InitGuard ==
    /\ options \in GuardOptions
    /\ configMinOrderSize \in ConfigMinVals
    /\ lastCall = NoCall
    /\ prevCall = NoCall
    /\ IdleMaintainer
    /\ exFreeUSDT = RZero /\ exFreeEPWX = RZero /\ exOrders = {}
    /\ dexFeed = [ok |-> FALSE, price |-> RZero] /\ ticksLeft = 0 /\ exEvents = 0

\* a call of revision A with the behaviour's options
CallGuardA ==
    /\ lastCall' = [rev |-> "A", out |-> computeSafeOrderSizeUSD_A(options),
                    configMin |-> configMinOrderSize]
    /\ prevCall' = lastCall
    /\ UNCHANGED <<options, configMinOrderSize, botVars, monVars, lifeVars, envVars>>

\* a call of revision B with the behaviour's options
CallGuardB ==
    /\ lastCall' = [rev |-> "B",
                    out |-> computeSafeOrderSizeUSD_B(options, configMinOrderSize),
                    configMin |-> configMinOrderSize]
    /\ prevCall' = lastCall
    /\ UNCHANGED <<options, configMinOrderSize, botVars, monVars, lifeVars, envVars>>

\* another part of the process assigns config.volumeStrategy.minOrderSize
SetConfigMinOrderSize ==
    /\ \E m \in ConfigMinVals \ {configMinOrderSize} : configMinOrderSize' = m
    /\ UNCHANGED <<options, lastCall, prevCall, botVars, monVars, lifeVars, envVars>>

NextGuard == CallGuardA \/ CallGuardB \/ SetConfigMinOrderSize

SpecGuard == InitGuard /\ [][NextGuard]_vars

(***************************************************************************)
(* SpecGuardNoMin: Guard calls in a process started with MIN_ORDER_SIZE=0  *)
(***************************************************************************)
InitGuardNoMin ==
    /\ options \in GuardOptions
    /\ configMinOrderSize = RZero
    /\ lastCall = NoCall
    /\ prevCall = NoCall
    /\ IdleMaintainer
    /\ exFreeUSDT = RZero /\ exFreeEPWX = RZero /\ exOrders = {}
    /\ dexFeed = [ok |-> FALSE, price |-> RZero] /\ ticksLeft = 0 /\ exEvents = 0

SpecGuardNoMin == InitGuardNoMin /\ [][NextGuard]_vars


(***************************************************************************)
(* Guard claims.  The quantities the claims speak of are written here from *)
(* the inputs of the call, independently of the Guard's own computation.   *)
(***************************************************************************)
Called == lastCall.rev # "none"
InFree == options.freeUSDT
InMinFree == OrDefault(options.minFreeUSD, DefaultMinFreeUSD)
InFeeBuffer == OrDefault(options.feeBufferUSD, DefaultFeeBufferUSD)
InReserved == OrDefault(options.reservedForActiveOrdersUSD, RZero)
InPercent == OrDefault(options.orderSizePercent, DefaultOrderSizePercent)
InCap == OrDefault(options.maxOrderUSDCap, DefaultMaxOrderUSDCap)
InCount == IF options.totalOrdersToPlace < 1 THEN 1 ELSE options.totalOrdersToPlace
\* max(0, freeQuoteBalance - feeBufferAmount - reservedQuoteBalance)
ExpectedUsable == RMax(RZero, RSub(RSub(InFree, InFeeBuffer), InReserved))
\* min(maxPerOrderCap, usableNotional * orderSizePercent / max(1, ordersToPlaceCount))
ExpectedPerOrder == RMin(InCap, RDiv(RMul(ExpectedUsable, InPercent), RInt(InCount)))
\* the minimum order size configured for the latest call (Undef: none configured)
ConfiguredMin == IF lastCall.rev = "A" THEN options.minOrderSize ELSE lastCall.configMin
MeetsConfiguredMin == ConfiguredMin = Undef \/ RLe(ConfiguredMin, ExpectedPerOrder)
BelowConfiguredMin == ConfiguredMin # Undef /\ RLt(ExpectedPerOrder, ConfiguredMin)

\* C1 as stated: whenever usableNotional > 0 and the computed per-order notional
\* is at least the configured minimum order size, the Guard returns allowed = true
\* with perOrderNotional = min(cap, usable * percent / max(1, count)).
C1_AllowedWheneverUsable ==
    (Called /\ RLt(RZero, ExpectedUsable) /\ MeetsConfiguredMin)
        => (lastCall.out.allowed /\ lastCall.out.perOrderUSD = ExpectedPerOrder)

\* C1 amended: the same, for inputs whose free balance is above the minimum-free
\* threshold and whose computed per-order notional is positive.
C1_AllowedAboveThreshold ==
    (Called /\ RLt(InMinFree, InFree) /\ RLt(RZero, ExpectedUsable)
       /\ RLt(RZero, ExpectedPerOrder) /\ MeetsConfiguredMin)
        => (lastCall.out.allowed /\ lastCall.out.perOrderUSD = ExpectedPerOrder)

\* an approved call with an order count of 0, sized as for one order, below the cap
C1_Witness ==
    /\ Called /\ lastCall.out.allowed
    /\ options.totalOrdersToPlace = 0
    /\ lastCall.out.perOrderUSD = RMul(ExpectedUsable, InPercent)
    /\ RLt(lastCall.out.perOrderUSD, InCap)

\* C2: a call with freeQuoteBalance <= minFreeThreshold returns allowed = false,
\* reason insufficient_free and perOrderNotional 0, whatever the other inputs.
C2_InsufficientFree ==
    (Called /\ RLe(InFree, InMinFree))
        => /\ ~lastCall.out.allowed
           /\ lastCall.out.reason = "insufficient_free"
           /\ lastCall.out.perOrderUSD = RZero

\* a rejected call whose free balance equals the threshold, with funds otherwise usable
C2_Witness ==
    /\ Called /\ InFree = InMinFree /\ RLt(RZero, ExpectedUsable)
    /\ lastCall.out.reason = "insufficient_free"

\* C3: every result carries usableNotional = max(0, free - feeBuffer - reserved).
C3_UsableNotionalReturned ==
    Called => lastCall.out.usableUSD = ExpectedUsable

\* C4: in every result perOrderNotional <= maxPerOrderCap.
C4_PerOrderWithinCap ==
    Called => RLe(lastCall.out.perOrderUSD, InCap)

\* an approved call sized exactly at the cap, the uncapped share being larger
C4_Witness ==
    /\ Called /\ lastCall.out.allowed
    /\ lastCall.out.perOrderUSD = InCap
    /\ RLt(InCap, RDiv(RMul(ExpectedUsable, InPercent), RInt(InCount)))

\* C5: free balance above the threshold and usableNotional <= 0 give allowed = false
\* with reason insufficient_after_reservations, with or without a minimum order size.
C5_InsufficientAfterReservations ==
    (Called /\ RLt(InMinFree, InFree) /\ RLe(ExpectedUsable, RZero))
        => /\ ~lastCall.out.allowed
           /\ lastCall.out.reason = "insufficient_after_reservations"

\* C6: free balance above the threshold, usableNotional > 0 and a computed per-order
\* notional below the configured minimum order size give allowed = false, reason
\* below_min_order_size and perOrderNotional 0.
C6_BelowMinOrderSize ==
    (Called /\ RLt(InMinFree, InFree) /\ RLt(RZero, ExpectedUsable) /\ BelowConfiguredMin)
        => /\ ~lastCall.out.allowed
           /\ lastCall.out.reason = "below_min_order_size"
           /\ lastCall.out.perOrderUSD = RZero

\* a rejection for the minimum order size of a positive computed per-order notional
C6_Witness ==
    /\ Called /\ RLt(InMinFree, InFree) /\ BelowConfiguredMin
    /\ RLt(RZero, ExpectedPerOrder)
    /\ lastCall.out.reason = "below_min_order_size"

\* C7: two calls of the Guard with identical inputs return identical results,
\* whatever happened to the process state (the configuration included) in between.
C7_SameInputSameOutput ==
    (prevCall.rev # "none" /\ prevCall.rev = lastCall.rev)
        => prevCall.out = lastCall.out



(***************************************************************************)
(* Maintainer and exchange account                                         *)
(* A cycle is one invocation of the order-timer callback.  Its steps are   *)
(* the answers of the awaited calls; the continuation that follows an      *)
(* answer runs up to the next awaited call within the same step.  The      *)
(* getTicker call of lines 216-225 (its result is never used and its       *)
(* failure is swallowed) and the setTimeout pauses are part of the step    *)
(* before them; pollOrderFills (lines 523-547) is part of the step that    *)
(* receives the placed order.                                              *)
(***************************************************************************)
MaxTicks == 1
MaxEvents == 1

\* pairs counts the wash pairs of the cycle whose two legs both returned an id
\* (-1 until the wash loop is entered);
\* placed counts the orders placeOrder returned to the cycle, rejected the
\* placeOrder calls of the cycle that threw; deals lists the trades the exchange
\* made of the cycle's orders (order id, side, price and value); washLegs
\* counts the placeOrder calls of the wash loop by side
NewCycle ==
    [pc |-> "fetchPrice", priceReference |-> RZero, buys |-> 0, sells |-> 0,
     availableUSDT |-> RZero, safeOrderSizeUSD |-> RZero,
     phase |-> "none", i |-> 0, side |-> "none", buyOrderId |-> NoId, placed |-> 0,
     rejected |-> 0, pairs |-> -1, deals |-> <<>>,
     washLegs |-> [BUY |-> 0, SELL |-> 0], trimSide |-> "none", excess |-> <<>>, cancels |-> <<>>]

\* an awaited exchange call may fail while failures are left in this behaviour
Failures == IF exEvents > 0 THEN {FALSE, TRUE} ELSE {FALSE}

\* what the exchange does with an order request: leave it resting, fail the call,
\* or match it on arrival and report the trade with role 1 or 2 (the client reads
\* the role as the trade's side, 1 meaning SELL: service lines 446-453)
SubmitOutcomes ==
    IF exEvents > 0 THEN {"rest", "fail", "matchRole1", "matchRole2"} ELSE {"rest"}

\* listing order of pending orders: by id (invocation, then sequence number)
ListedBefore(a, b) == a[1] < b[1] \/ (a[1] = b[1] /\ a[2] < b[2])

\* pending orders as a list, oldest first (ids follow the order of placement)
RankedList(S, rank) == [k \in 1..Cardinality(S) |-> CHOOSE o \in S : rank[o] = k]
OldestFirst(S) ==
    RankedList(S, [o \in S |->
                     1 + Cardinality({q \in S : ListedBefore(q.orderId, o.orderId)})])

\* the amounts locked by the orders list[lo..hi]
RECURSIVE SumRange(_, _, _)
SumRange(list, lo, hi) ==
    IF lo > hi THEN RZero
    ELSE IF lo = hi THEN list[lo].lock
    ELSE RAdd(SumRange(list, lo, (lo + hi) \div 2),
              SumRange(list, (lo + hi) \div 2 + 1, hi))

SumLocks(S) == SumRange(OldestFirst(S), 1, Cardinality(S))

\* the records of one getOpenOrders answer: offset 0, at most limit orders
OpenOrdersPage ==
    {o \in exOrders :
        Cardinality({q \in exOrders : ListedBefore(q.orderId, o.orderId)})
            < OpenOrdersLimit}

\* the awaited calls of start() that fail: cancelAllOrders (line 103) and the
\* getBalances of logBalances (line 727), as far as failures are left
StartFailures ==
    {f \in [cancelAll : BOOLEAN, balances : BOOLEAN] :
        (IF f.cancelAll THEN 1 ELSE 0) + (IF f.balances THEN 1 ELSE 0) <= exEvents}

\* start() without the inner catch of lines 105-107: a failure of
\* cancelAllOrders reaches the outer catch (lines 118-122), which resets the
\* flag and throws before a timer is armed
Start_CancelFailureThrows ==
    /\ ~isRunning /\ ~orderTimer
    /\ \E f \in StartFailures :
         /\ isRunning' = ~f.cancelAll
         /\ orderTimer' = ~f.cancelAll
         /\ updateTimer' = ~f.cancelAll
         /\ exEvents' = exEvents - (IF f.cancelAll THEN 1 ELSE 0)
                                 - (IF f.balances THEN 1 ELSE 0)
         /\ IF f.cancelAll
            THEN UNCHANGED <<exFreeUSDT, exFreeEPWX, exOrders>>
            ELSE /\ exFreeUSDT' =
                      RAdd(exFreeUSDT, SumLocks({o \in exOrders : o.side = "BUY"}))
                 /\ exFreeEPWX' =
                      RAdd(exFreeEPWX, SumLocks({o \in exOrders : o.side = "SELL"}))
                 /\ exOrders' = {}
    /\ UNCHANGED <<guardVars, lifeVars, orderStatusIndex, trk, realFills, currentPosition, cyc,
                   activeOrders, orderPrices, volumeStats, washTrades,
                   washTradePairsActive, dexFeed, ticksLeft>>

\* start() (lines 78-123): cancelAllOrders, whose failure is caught and logged
\* (lines 101-107), logBalances, which catches its own failure (lines 725-737),
\* then both timers are armed
Start ==
    /\ ~isRunning /\ ~orderTimer
    /\ isRunning' = TRUE
    /\ orderTimer' = TRUE
    /\ updateTimer' = TRUE
    /\ \E f \in StartFailures :
         /\ exEvents' = exEvents - (IF f.cancelAll THEN 1 ELSE 0)
                                 - (IF f.balances THEN 1 ELSE 0)
         /\ IF f.cancelAll
            THEN UNCHANGED <<exFreeUSDT, exFreeEPWX, exOrders>>
            ELSE /\ exFreeUSDT' =
                      RAdd(exFreeUSDT, SumLocks({o \in exOrders : o.side = "BUY"}))
                 /\ exFreeEPWX' =
                      RAdd(exFreeEPWX, SumLocks({o \in exOrders : o.side = "SELL"}))
                 /\ exOrders' = {}
    /\ UNCHANGED <<guardVars, lifeVars, orderStatusIndex, trk, realFills, currentPosition, cyc,
                   activeOrders, orderPrices, volumeStats, washTrades,
                   washTradePairsActive, dexFeed, ticksLeft>>

\* the setInterval callback of startOrderPlacementLoop (lines 153-162) fires:
\* a new invocation of placeVolumeOrders, whatever the earlier ones are doing
OrderTimer ==
    /\ orderTimer /\ ticksLeft > 0
    /\ ticksLeft' = ticksLeft - 1
    /\ cyc' = IF isRunning THEN Append(cyc, NewCycle) ELSE cyc
    /\ UNCHANGED <<guardVars, lifeVars, monVars, currentPosition, isRunning, orderTimer, activeOrders, orderPrices,
                   volumeStats, washTrades, washTradePairsActive,
                   exFreeUSDT, exFreeEPWX, exOrders, dexFeed, exEvents>>

\* DexResponse without the catch of lines 203-205 and those around it: the
\* failure of the oracle leaves the callback as a rejected promise, and the
\* unhandledRejection handler of index.ts stops the bot
DexResponse_Uncaught(c) ==
    /\ cyc[c].pc = "fetchPrice"
    /\ LET lastPrice == DiscountedPrice(dexFeed.price)
       IN  cyc' = [cyc EXCEPT ![c] =
                     IF ~dexFeed.ok \/ lastPrice = RZero
                     THEN [@ EXCEPT !.pc = "done"]
                     ELSE [@ EXCEPT !.pc = "getOpenOrders", !.priceReference = lastPrice]]
    /\ isRunning' = dexFeed.ok
    /\ orderTimer' = dexFeed.ok
    /\ updateTimer' = dexFeed.ok
    /\ UNCHANGED <<guardVars, lifeVars, orderStatusIndex, trk, realFills, currentPosition,
                   activeOrders, orderPrices, volumeStats, washTrades,
                   washTradePairsActive, envVars>>

\* fetchEpwXPriceFromPancake answers (lines 186-211)
DexResponse(c) ==
    /\ cyc[c].pc = "fetchPrice"
    /\ LET lastPrice == DiscountedPrice(dexFeed.price)
       IN  cyc' = [cyc EXCEPT ![c] =
                     IF ~dexFeed.ok \/ lastPrice = RZero
                     THEN [@ EXCEPT !.pc = "done"]
                     ELSE [@ EXCEPT !.pc = "getOpenOrders", !.priceReference = lastPrice]]
    /\ UNCHANGED <<guardVars, lifeVars, monVars, currentPosition, isRunning, orderTimer, activeOrders, orderPrices,
                   volumeStats, washTrades, washTradePairsActive, envVars>>

\* excessBuyOrders / excessSellOrders: list.slice(targetOrdersPerSide)
SliceFromTarget(list) ==
    IF Len(list) > targetOrdersPerSide
    THEN SubSeq(list, targetOrdersPerSide + 1, Len(list)) ELSE <<>>

\* the cycle after an answer of getOpenOrders (lines 235-261): the first answer
\* (trimSide "none") goes through the BUY test and the SELL test, the answer that
\* follows the BUY cancellations through the SELL test, the answer that follows
\* the SELL cancellations to the sizing
AfterOpenOrders(r, records) ==
    LET IsBuy(o) == o.side = "BUY"
        IsSell(o) == o.side = "SELL"
        buyOrders == SelectSeq(records, IsBuy)
        sellOrders == SelectSeq(records, IsSell)
        counted == [r EXCEPT !.buys = Len(buyOrders), !.sells = Len(sellOrders)]
    IN  IF r.trimSide = "none" /\ Len(buyOrders) > targetOrdersPerSide
        THEN [counted EXCEPT !.pc = "cancelOrder", !.trimSide = "BUY",
                             !.excess = SliceFromTarget(buyOrders)]
        ELSE IF r.trimSide # "SELL" /\ Len(sellOrders) > targetOrdersPerSide
        THEN [counted EXCEPT !.pc = "cancelOrder", !.trimSide = "SELL",
                             !.excess = SliceFromTarget(sellOrders)]
        ELSE [counted EXCEPT !.pc = "sizing"]

\* getOpenOrders answers with the records listed (lines 235, 247, 258)
OpenOrdersAnswered(c, records) ==
    /\ cyc[c].pc = "getOpenOrders"
    /\ \E failed \in Failures :
         IF failed
         THEN /\ exEvents' = exEvents - 1
              /\ cyc' = [cyc EXCEPT ![c].pc = "done"]
         ELSE /\ cyc' = [cyc EXCEPT ![c] = AfterOpenOrders(cyc[c], records)]
              /\ UNCHANGED exEvents
    /\ UNCHANGED <<guardVars, lifeVars, monVars, currentPosition, isRunning, orderTimer, activeOrders, orderPrices,
                   volumeStats, washTrades, washTradePairsActive,
                   exFreeUSDT, exFreeEPWX, exOrders, dexFeed, ticksLeft>>

\* getOpenOrders of the client: one page of at most OpenOrdersLimit records
OpenOrdersResponse(c) == OpenOrdersAnswered(c, OldestFirst(OpenOrdersPage))

\* cancelOrder answers in a cancellation loop (lines 243-246, 254-257): a failure,
\* or an order that is no longer pending, throws into the catch of the cycle;
\* after the last cancellation the open orders are fetched again
CancelOrderResponse(c) ==
    /\ cyc[c].pc = "cancelOrder"
    /\ \E failed \in Failures :
         LET order == Head(cyc[c].excess)
             called == [cyc[c] EXCEPT !.cancels = Append(@, order), !.excess = Tail(@)]
         IN  IF failed \/ order \notin exOrders
             THEN /\ exEvents' = IF failed THEN exEvents - 1 ELSE exEvents
                  /\ cyc' = [cyc EXCEPT ![c] = [called EXCEPT !.pc = "done"]]
                  /\ UNCHANGED <<exFreeUSDT, exFreeEPWX, exOrders>>
             ELSE /\ exOrders' = exOrders \ {order}
                  /\ exFreeUSDT' = IF order.side = "BUY"
                                   THEN RAdd(exFreeUSDT, order.lock) ELSE exFreeUSDT
                  /\ exFreeEPWX' = IF order.side = "SELL"
                                   THEN RAdd(exFreeEPWX, order.lock) ELSE exFreeEPWX
                  /\ cyc' = [cyc EXCEPT ![c] =
                               IF called.excess = <<>>
                               THEN [called EXCEPT !.pc = "getOpenOrders"]
                               ELSE called]
                  /\ UNCHANGED exEvents
    /\ UNCHANGED <<guardVars, lifeVars, monVars, currentPosition, isRunning, orderTimer, activeOrders, orderPrices,
                   volumeStats, washTrades, washTradePairsActive, dexFeed, ticksLeft>>

\* getBalances answers and the order size is computed (lines 265-271)
BalancesResponse(c) ==
    /\ cyc[c].pc = "sizing"
    /\ \E failed \in Failures :
         IF failed
         THEN /\ exEvents' = exEvents - 1
              /\ cyc' = [cyc EXCEPT ![c].pc = "done"]
              /\ UNCHANGED washTradePairsActive
         ELSE LET sized == AfterSizing([cyc[c] EXCEPT
                               !.availableUSDT = exFreeUSDT,
                               !.safeOrderSizeUSD = SafeOrderSizeUSD(exFreeUSDT)])
              IN  /\ cyc' = [cyc EXCEPT ![c] = sized]
                  /\ washTradePairsActive' =
                        IF sized.phase \in {"bookBuys", "bookSells"}
                        THEN washTradePairsActive ELSE <<>>
                  /\ UNCHANGED exEvents
    /\ UNCHANGED <<guardVars, lifeVars, monVars, currentPosition, isRunning, orderTimer, activeOrders, orderPrices,
                   volumeStats, washTrades,
                   exFreeUSDT, exFreeEPWX, exOrders, dexFeed, ticksLeft>>

\* this.volumeStats after placeBuyOrder/placeSellOrder received an order (line 476)
\* and pollOrderFills read its trades (lines 529-535): none, or one trade of
\* amount * price whose side the client derived from the role
StatsAfterOrder(stats, matched, role1, volume) ==
    [orderCount |-> stats.orderCount + 1,
     totalVolume |-> IF matched THEN RAdd(stats.totalVolume, volume) ELSE stats.totalVolume,
     buyVolume |-> IF matched /\ ~role1 THEN RAdd(stats.buyVolume, volume)
                   ELSE stats.buyVolume,
     sellVolume |-> IF matched /\ role1 THEN RAdd(stats.sellVolume, volume)
                    ELSE stats.sellVolume]

\* what placeBuyOrder and placeSellOrder do with the answer of getBalances: a
\* failed or skipped call returns undefined to the loop, otherwise placeOrder
\* is called
BalancesHandled(c, r, failed, skipped) ==
    /\ exEvents' = IF failed THEN exEvents - 1 ELSE exEvents
    /\ cyc' = [cyc EXCEPT ![c] =
                 IF skipped THEN AfterPlacement(r, NoId)
                 ELSE [r EXCEPT !.pc = "placeOrder"]]
    /\ washTradePairsActive' =
          IF skipped THEN PairsAfterPlacement(r, NoId, washTradePairsActive)
          ELSE washTradePairsActive

\* placeBuyOrder, getBalances answers (lines 452-461): a failure ends the call in
\* its catch, an order value above the free USDT of the answer skips the order,
\* otherwise placeOrder is called
PlaceBuyOrderBalances(c) ==
    /\ cyc[c].pc = "getBalances" /\ cyc[c].side = "BUY"
    /\ \E failed \in Failures :
         LET availableUSDT == exFreeUSDT
             orderValue == RMul(PlacementAmount(cyc[c]), PlacementPrice(cyc[c]))
         IN  BalancesHandled(c, cyc[c], failed, failed \/ RLt(availableUSDT, orderValue))
    /\ UNCHANGED <<guardVars, lifeVars, monVars, currentPosition, isRunning, orderTimer, activeOrders, orderPrices,
                   volumeStats, washTrades,
                   exFreeUSDT, exFreeEPWX, exOrders, dexFeed, ticksLeft>>

\* OrderHandled with the bookkeeping of lines 472-476 moved out of the test of
\* the answer: a failed order is counted as well
OrderHandled_CountFailed(c, r, price, volume, accepted, matched, role1, id) ==
    /\ activeOrders' = IF accepted THEN activeOrders \cup {id} ELSE activeOrders
    /\ orderPrices' = IF accepted
                      THEN (id :> [side |-> r.side, price |-> price]) @@ orderPrices
                      ELSE orderPrices
    /\ volumeStats' = StatsAfterOrder(volumeStats, matched, role1, volume)
    /\ washTrades' = IF matched /\ r.phase = "wash" THEN washTrades + 1 ELSE washTrades
    /\ cyc' = [cyc EXCEPT ![c] =
                 AfterPlacement([r EXCEPT !.placed = IF accepted THEN @ + 1 ELSE @,
                                          !.rejected = IF accepted THEN @ ELSE @ + 1,
                                          !.washLegs = IF r.phase = "wash"
                                                       THEN [@ EXCEPT ![r.side] = @ + 1]
                                                       ELSE @,
                                          !.deals = IF matched
                                                    THEN Append(@, [orderId |-> id,
                                                                    side |-> r.side,
                                                                    price |-> price,
                                                                    volume |-> volume])
                                                    ELSE @],
                                id)]
    /\ washTradePairsActive' = PairsAfterPlacement(r, id, washTradePairsActive)

\* what placeBuyOrder and placeSellOrder do with the answer of placeOrder (lines
\* 470-481, 505-516): an order is recorded in activeOrders and orderPrices and
\* counted, its trades are polled, and its id is returned; a failure is caught
\* and undefined (NoId) is returned
OrderHandled(c, r, price, volume, accepted, matched, role1, id) ==
    /\ activeOrders' = IF accepted THEN activeOrders \cup {id} ELSE activeOrders
    /\ orderPrices' = IF accepted
                      THEN (id :> [side |-> r.side, price |-> price]) @@ orderPrices
                      ELSE orderPrices
    /\ volumeStats' = IF accepted
                      THEN StatsAfterOrder(volumeStats, matched, role1, volume)
                      ELSE volumeStats
    /\ washTrades' = IF matched /\ r.phase = "wash" THEN washTrades + 1 ELSE washTrades
    /\ cyc' = [cyc EXCEPT ![c] =
                 AfterPlacement([r EXCEPT !.placed = IF accepted THEN @ + 1 ELSE @,
                                          !.rejected = IF accepted THEN @ ELSE @ + 1,
                                          !.washLegs = IF r.phase = "wash"
                                                       THEN [@ EXCEPT ![r.side] = @ + 1]
                                                       ELSE @,
                                          !.deals = IF matched
                                                    THEN Append(@, [orderId |-> id,
                                                                    side |-> r.side,
                                                                    price |-> price,
                                                                    volume |-> volume])
                                                    ELSE @],
                                id)]
    /\ washTradePairsActive' = PairsAfterPlacement(r, id, washTradePairsActive)

\* the exchange processes a BUY request: refused without a positive amount and
\* price or beyond the free USDT; otherwise its value is taken from the free
\* USDT and the order rests, or is matched at once and pays out EPWX
BuyProcessed(c, r, out, price, amountStr, lock, accepted, matched) ==
    /\ exEvents' = IF out = "rest" THEN exEvents ELSE exEvents - 1
    /\ exFreeUSDT' = IF accepted THEN RSub(exFreeUSDT, lock) ELSE exFreeUSDT
    /\ exFreeEPWX' = IF matched THEN RAdd(exFreeEPWX, amountStr) ELSE exFreeEPWX
    /\ exOrders' = IF accepted /\ ~matched
                   THEN exOrders \cup {[orderId |-> <<c, r.placed + 1>>, side |-> "BUY",
                                        lock |-> lock]}
                   ELSE exOrders
    /\ OrderHandled(c, r, price, lock, accepted, matched, out = "matchRole1",
                    IF accepted THEN <<c, r.placed + 1>> ELSE NoId)

BuyRequest(c, r, out, price, amountStr, priceStr, lock) ==
    BuyProcessed(c, r, out, price, amountStr, lock,
                 /\ out # "fail"
                 /\ RLt(RZero, amountStr) /\ RLt(RZero, priceStr)
                 /\ RLe(lock, exFreeUSDT),
                 /\ out \in {"matchRole1", "matchRole2"}
                 /\ RLt(RZero, amountStr) /\ RLt(RZero, priceStr)
                 /\ RLe(lock, exFreeUSDT))

\* placeBuyOrder, the order request reaches the exchange and its answer is handled
\* (lines 463-484); the client formats amount and price (service lines 212-235)
PlaceBuyOrderSubmit(c) ==
    /\ cyc[c].pc = "placeOrder" /\ cyc[c].side = "BUY"
    /\ \E out \in SubmitOutcomes :
         BuyRequest(c, cyc[c], out, PlacementPrice(cyc[c]),
                    FormatAmount(PlacementAmount(cyc[c])),
                    FormatPrice(PlacementPrice(cyc[c])),
                    RMul(FormatAmount(PlacementAmount(cyc[c])),
                         FormatPrice(PlacementPrice(cyc[c]))))
    /\ UNCHANGED <<guardVars, lifeVars, monVars, currentPosition, isRunning, orderTimer, dexFeed, ticksLeft>>

\* placeSellOrder, getBalances answers (lines 488-496)
PlaceSellOrderBalances(c) ==
    /\ cyc[c].pc = "getBalances" /\ cyc[c].side = "SELL"
    /\ \E failed \in Failures :
         LET availableEPWX == exFreeEPWX
         IN  BalancesHandled(c, cyc[c], failed,
                             failed \/ RLt(availableEPWX, PlacementAmount(cyc[c])))
    /\ UNCHANGED <<guardVars, lifeVars, monVars, currentPosition, isRunning, orderTimer, activeOrders, orderPrices,
                   volumeStats, washTrades,
                   exFreeUSDT, exFreeEPWX, exOrders, dexFeed, ticksLeft>>

\* the exchange processes a SELL request: refused without a positive amount and
\* price or beyond the free EPWX; otherwise the amount is taken from the free
\* EPWX and the order rests, or is matched at once and pays out USDT
SellProcessed(c, r, out, price, amountStr, volume, accepted, matched) ==
    /\ exEvents' = IF out = "rest" THEN exEvents ELSE exEvents - 1
    /\ exFreeEPWX' = IF accepted THEN RSub(exFreeEPWX, amountStr) ELSE exFreeEPWX
    /\ exFreeUSDT' = IF matched THEN RAdd(exFreeUSDT, volume) ELSE exFreeUSDT
    /\ exOrders' = IF accepted /\ ~matched
                   THEN exOrders \cup {[orderId |-> <<c, r.placed + 1>>, side |-> "SELL",
                                        lock |-> amountStr]}
                   ELSE exOrders
    /\ OrderHandled(c, r, price, volume, accepted, matched, out = "matchRole1",
                    IF accepted THEN <<c, r.placed + 1>> ELSE NoId)

SellRequest(c, r, out, price, amountStr, priceStr, volume) ==
    SellProcessed(c, r, out, price, amountStr, volume,
                  /\ out # "fail"
                  /\ RLt(RZero, amountStr) /\ RLt(RZero, priceStr)
                  /\ RLe(amountStr, exFreeEPWX),
                  /\ out \in {"matchRole1", "matchRole2"}
                  /\ RLt(RZero, amountStr) /\ RLt(RZero, priceStr)
                  /\ RLe(amountStr, exFreeEPWX))

\* placeSellOrder, the order request reaches the exchange and its answer is
\* handled (lines 498-519)
PlaceSellOrderSubmit(c) ==
    /\ cyc[c].pc = "placeOrder" /\ cyc[c].side = "SELL"
    /\ \E out \in SubmitOutcomes :
         SellRequest(c, cyc[c], out, PlacementPrice(cyc[c]),
                     FormatAmount(PlacementAmount(cyc[c])),
                     FormatPrice(PlacementPrice(cyc[c])),
                     RMul(FormatAmount(PlacementAmount(cyc[c])),
                          FormatPrice(PlacementPrice(cyc[c]))))
    /\ UNCHANGED <<guardVars, lifeVars, monVars, currentPosition, isRunning, orderTimer, dexFeed, ticksLeft>>

\* the account and the oracle of the behaviours explored
UsdtVals == {RZero, RInt(1), RInt(30), RInt(1500)}
EpwxVals == {RZero, RInt(100)}
\* the oracle throws, reports its failure as -1 (dex-price.ts line 62), quotes 0
\* (an empty reserve), or quotes 1/95 USD (a reference price of 0.01 USD)
DexFeeds == {[ok |-> FALSE, price |-> RZero], [ok |-> TRUE, price |-> RInt(-1)],
             [ok |-> TRUE, price |-> RZero], [ok |-> TRUE, price |-> R(1, 95)]}
\* orders left pending by an earlier run
PriorBooks == {{}, {[orderId |-> <<0, 1>>, side |-> "BUY", lock |-> RInt(1)],
                    [orderId |-> <<0, 2>>, side |-> "SELL", lock |-> RInt(1)]}}

\* the Guard is not part of the Maintainer's behaviours
GuardUnused ==
    /\ options = [freeUSDT |-> RZero, totalOrdersToPlace |-> 0,
                  reservedForActiveOrdersUSD |-> Undef, feeBufferUSD |-> Undef,
                  minFreeUSD |-> Undef, orderSizePercent |-> Undef,
                  maxOrderUSDCap |-> Undef, minOrderSize |-> Undef]
    /\ configMinOrderSize = RInt(50)
    /\ lastCall = NoCall
    /\ prevCall = NoCall

Init ==
    /\ GuardUnused
    /\ IdleMaintainer
    /\ exFreeUSDT \in UsdtVals
    /\ exFreeEPWX \in EpwxVals
    /\ exOrders \in PriorBooks
    /\ dexFeed \in DexFeeds
    /\ ticksLeft = MaxTicks
    /\ exEvents \in 0..MaxEvents

Next ==
    \/ Start
    \/ OrderTimer
    \/ \E c \in DOMAIN cyc : DexResponse(c)
    \/ \E c \in DOMAIN cyc : OpenOrdersResponse(c)
    \/ \E c \in DOMAIN cyc : BalancesResponse(c)
    \/ \E c \in DOMAIN cyc : PlaceBuyOrderBalances(c)
    \/ \E c \in DOMAIN cyc : PlaceBuyOrderSubmit(c)
    \/ \E c \in DOMAIN cyc : PlaceSellOrderBalances(c)
    \/ \E c \in DOMAIN cyc : PlaceSellOrderSubmit(c)

Spec == Init /\ [][Next]_vars


(***************************************************************************)
(* Overlapping invocations.  setInterval does not wait for the callback it *)
(* started: with orderFrequency at 5000 ms and one second of polling per   *)
(* placed order, a cycle outlives many firings.  SpecOverlap follows three *)
(* invocations on an account with 30 USDT and no EPWX, with an exchange    *)
(* that neither fails nor matches, under the schedules in which the timer  *)
(* fires three times before the oracle answers, every invocation has sized *)
(* its orders before the first order is placed, and the invocations keep   *)
(* pace: none is OverlapLead placement calls ahead of an unfinished one.   *)
(***************************************************************************)
OverlapTicks == 3
OverlapLead == 2

InitOverlap ==
    /\ GuardUnused
    /\ IdleMaintainer
    /\ exFreeUSDT = RInt(30)
    /\ exFreeEPWX = RZero
    /\ exOrders = {}
    /\ dexFeed = [ok |-> TRUE, price |-> R(1, 95)]
    /\ ticksLeft = OverlapTicks
    /\ exEvents = 0

\* the placeBuyOrder and placeSellOrder calls that have returned in a cycle
CallsReturned(r) ==
    LET needBuys == IF r.buys < targetOrdersPerSide
                    THEN targetOrdersPerSide - r.buys ELSE 0
        needSells == IF r.sells < targetOrdersPerSide
                     THEN targetOrdersPerSide - r.sells ELSE 0
    IN  IF r.phase = "bookBuys" THEN r.i
        ELSE IF r.phase = "bookSells" THEN needBuys + r.i
        ELSE IF r.phase = "wash"
        THEN needBuys + needSells + 2 * r.i + (IF r.side = "SELL" THEN 1 ELSE 0)
        ELSE needBuys + needSells + 2 * washTradePairs + r.i

AllFired == ticksLeft = 0
AllSized == \A c \in DOMAIN cyc : cyc[c].pc \notin {"fetchPrice", "getOpenOrders", "sizing"}
KeepsPace(c) ==
    \A d \in DOMAIN cyc :
        cyc[d].pc # "done" => CallsReturned(cyc[c]) - CallsReturned(cyc[d]) < OverlapLead

NextOverlap ==
    \/ Start
    \/ OrderTimer
    \/ \E c \in DOMAIN cyc : AllFired /\ DexResponse(c)
    \/ \E c \in DOMAIN cyc : OpenOrdersResponse(c)
    \/ \E c \in DOMAIN cyc : BalancesResponse(c)
    \/ \E c \in DOMAIN cyc : AllSized /\ KeepsPace(c) /\ PlaceBuyOrderBalances(c)
    \/ \E c \in DOMAIN cyc : AllSized /\ KeepsPace(c) /\ PlaceBuyOrderSubmit(c)
    \/ \E c \in DOMAIN cyc : AllSized /\ KeepsPace(c) /\ PlaceSellOrderBalances(c)

SpecOverlap == InitOverlap /\ [][NextOverlap]_vars


(***************************************************************************)
(* SpecWash: two overlapping invocations of placeVolumeOrders on an        *)
(* account that can pay for every order of both (60 USDT, 10000 EPWX), an  *)
(* exchange that neither fails nor matches, under the schedules of         *)
(* SpecOverlap.                                                            *)
(***************************************************************************)
WashTicks == 2

InitWash ==
    /\ GuardUnused
    /\ IdleMaintainer
    /\ exFreeUSDT = RInt(60)
    /\ exFreeEPWX = RInt(10000)
    /\ exOrders = {}
    /\ dexFeed = [ok |-> TRUE, price |-> R(1, 95)]
    /\ ticksLeft = WashTicks
    /\ exEvents = 0

NextWash ==
    \/ Start
    \/ OrderTimer
    \/ \E c \in DOMAIN cyc : AllFired /\ DexResponse(c)
    \/ \E c \in DOMAIN cyc : OpenOrdersResponse(c)
    \/ \E c \in DOMAIN cyc : BalancesResponse(c)
    \/ \E c \in DOMAIN cyc : AllSized /\ KeepsPace(c) /\ PlaceBuyOrderBalances(c)
    \/ \E c \in DOMAIN cyc : AllSized /\ KeepsPace(c) /\ PlaceBuyOrderSubmit(c)
    \/ \E c \in DOMAIN cyc : AllSized /\ KeepsPace(c) /\ PlaceSellOrderBalances(c)
    \/ \E c \in DOMAIN cyc : AllSized /\ KeepsPace(c) /\ PlaceSellOrderSubmit(c)

SpecWash == InitWash /\ [][NextWash]_vars


(***************************************************************************)
(* Cancellation of excess orders.  SpecTrim starts the Maintainer on an    *)
(* account that holds more than targetOrdersPerSide pending orders on a    *)
(* side; they survive start() when its cancelAllOrders fails.  The order   *)
(* in which the exchange lists pending orders is its own choice, and so is *)
(* whether an answer stops at the limit of the request.                    *)
(***************************************************************************)
TrimEvents == 1

Reverse(list) == [k \in 1..Len(list) |-> list[Len(list) + 1 - k]]

FirstRecords(list, n) == IF Len(list) > n THEN SubSeq(list, 1, n) ELSE list

\* the answers the exchange may give to one getOpenOrders request
Listings ==
    LET oldestFirst == OldestFirst(exOrders)
        newestFirst == Reverse(oldestFirst)
    IN  {FirstRecords(oldestFirst, OpenOrdersLimit),
         FirstRecords(newestFirst, OpenOrdersLimit), oldestFirst, newestFirst}

OpenOrdersListed(c) ==
    /\ cyc[c].pc = "getOpenOrders"
    /\ \E records \in Listings : OpenOrdersAnswered(c, records)

\* b BUY orders placed first, then s SELL orders
BookOf(b, s) ==
    {[orderId |-> <<0, k>>, side |-> "BUY", lock |-> RInt(1)] : k \in 1..b}
        \cup {[orderId |-> <<0, b + k>>, side |-> "SELL", lock |-> RInt(1)] : k \in 1..s}

TrimBooks == {BookOf(32, 33), BookOf(31, 30), BookOf(30, 32)}

InitTrim ==
    /\ GuardUnused
    /\ IdleMaintainer
    /\ exFreeUSDT = RInt(30)
    /\ exFreeEPWX = RZero
    /\ exOrders \in TrimBooks
    /\ dexFeed = [ok |-> TRUE, price |-> R(1, 95)]
    /\ ticksLeft = MaxTicks
    /\ exEvents = TrimEvents

NextTrim ==
    \/ Start
    \/ OrderTimer
    \/ \E c \in DOMAIN cyc : DexResponse(c)
    \/ \E c \in DOMAIN cyc : OpenOrdersListed(c)
    \/ \E c \in DOMAIN cyc : CancelOrderResponse(c)
    \/ \E c \in DOMAIN cyc : BalancesResponse(c)
    \/ \E c \in DOMAIN cyc : PlaceBuyOrderBalances(c)
    \/ \E c \in DOMAIN cyc : PlaceBuyOrderSubmit(c)
    \/ \E c \in DOMAIN cyc : PlaceSellOrderBalances(c)
    \/ \E c \in DOMAIN cyc : PlaceSellOrderSubmit(c)

SpecTrim == InitTrim /\ [][NextTrim]_vars


(***************************************************************************)
(* The revision of the strategy that crosses the spread                    *)
(* (src/src/strategies/volume-generation.strategy.ts, lines 383-800).  A   *)
(* cycle reads ticker and order book, cancels the ten oldest tracked       *)
(* orders once more than twenty are tracked, and places one BUY and one    *)
(* SELL order.  SpecTaker follows it on a market without other orders (the *)
(* order book answers are empty, the ticker quotes 1 USD), with the timer  *)
(* firing when the previous cycle has ended.                               *)
(***************************************************************************)
TrackedOrdersLimit == 20
OldOrdersBatch == 10
TakerTicks == 12
TakerEvents == 1

TakerCycle ==
    [pc |-> "marketData", referencePrice |-> RZero, orderSize |-> RZero,
     canSell |-> FALSE, excess |-> <<>>, cancels |-> <<>>]

\* config.volumeStrategy.minOrderSize / maxOrderSize and
\* config.marketMaking.maxPositionSize (defaults of config/index.ts)
MinOrderSizeUSD == RInt(50)
MaxOrderSizeUSD == RInt(500)
MaxPositionSize == RInt(5000)
\* what Math.random() returns in randomizeOrderSize: the smallest order size
\* is followed, which the balances of InitTaker cover in every cycle
RandomDraws == {RZero}
\* Math.min(Math.max(spreadPercentage / 100, 0.10), 0.40) with spreadPercentage 0.1
SpreadMultiplier == RMin(RMax(R(1, 1000), R(1, 10)), R(4, 10))

\* the tracked orders as the exchange reported them: a cycle's BUY order has
\* sequence number 1, its SELL order 2
TrackedOrder(id) == [orderId |-> id, side |-> IF id[2] = 1 THEN "BUY" ELSE "SELL"]
\* Array.from(this.activeOrders.keys()).slice(0, 10)
OldOrders == FirstRecords(OldestFirst({TrackedOrder(id) : id \in activeOrders}),
                          OldOrdersBatch)

\* the position limits after the cancellations (lines 592-611)
AfterCancelOld(r) ==
    LET canBuy == RLe(RAbs(RAdd(currentPosition, r.orderSize)), MaxPositionSize)
        canSell == RLe(RAbs(RSub(currentPosition, r.orderSize)), MaxPositionSize)
    IN  IF canBuy THEN [r EXCEPT !.pc = "placeBuy", !.canSell = canSell]
        ELSE IF canSell THEN [r EXCEPT !.pc = "placeSell", !.canSell = TRUE]
        ELSE [r EXCEPT !.pc = "done"]

\* the setInterval callback of startOrderPlacementLoop (lines 475-485)
TakerOrderTimer ==
    /\ orderTimer /\ ticksLeft > 0
    /\ \A c \in DOMAIN cyc : cyc[c].pc = "done"
    /\ ticksLeft' = ticksLeft - 1
    /\ cyc' = IF isRunning THEN Append(cyc, TakerCycle) ELSE cyc
    /\ UNCHANGED <<guardVars, lifeVars, monVars, currentPosition, isRunning, orderTimer, activeOrders,
                   orderPrices, volumeStats, washTrades, washTradePairsActive,
                   exFreeUSDT, exFreeEPWX, exOrders, dexFeed, exEvents>>

\* getTicker and getOrderBook answer (lines 503-563): a failure ends the cycle
\* in its catch, a price of 0 skips the round
TakerMarketData(c) ==
    /\ cyc[c].pc = "marketData"
    /\ \E failed \in Failures : \E draw \in RandomDraws :
         LET referencePrice == dexFeed.price
             orderSizeUSD == RAdd(MinOrderSizeUSD,
                                  RMul(draw, RSub(MaxOrderSizeUSD, MinOrderSizeUSD)))
         IN  IF failed \/ ~dexFeed.ok \/ referencePrice = RZero
             THEN /\ exEvents' = IF failed THEN exEvents - 1 ELSE exEvents
                  /\ cyc' = [cyc EXCEPT ![c].pc = "done"]
             ELSE /\ UNCHANGED exEvents
                  /\ cyc' = [cyc EXCEPT ![c] =
                       LET r == [cyc[c] EXCEPT
                                    !.referencePrice = referencePrice,
                                    !.orderSize = RDiv(orderSizeUSD, referencePrice)]
                       IN  IF Cardinality(activeOrders) > TrackedOrdersLimit
                           THEN [r EXCEPT !.pc = "cancelOld", !.excess = OldOrders]
                           ELSE AfterCancelOld(r)]
    /\ UNCHANGED <<guardVars, lifeVars, monVars, currentPosition, isRunning, orderTimer, activeOrders,
                   orderPrices, volumeStats, washTrades, washTradePairsActive,
                   exFreeUSDT, exFreeEPWX, exOrders, dexFeed, ticksLeft>>

\* cancelOrder answers in the loop of lines 565-572: a cancelled order leaves
\* the tracking map, a failure is swallowed and the order stays tracked
TakerCancelOld(c) ==
    /\ cyc[c].pc = "cancelOld"
    /\ \E failed \in Failures :
         LET old == Head(cyc[c].excess)
             pending == {o \in exOrders : o.orderId = old.orderId}
             called == [cyc[c] EXCEPT !.cancels = Append(@, old), !.excess = Tail(@)]
             cancelled == ~failed /\ pending # {}
         IN  /\ exEvents' = IF failed THEN exEvents - 1 ELSE exEvents
             /\ exOrders' = IF cancelled THEN exOrders \ pending ELSE exOrders
             /\ exFreeUSDT' = IF cancelled /\ old.side = "BUY"
                              THEN RAdd(exFreeUSDT, SumLocks(pending)) ELSE exFreeUSDT
             /\ exFreeEPWX' = IF cancelled /\ old.side = "SELL"
                              THEN RAdd(exFreeEPWX, SumLocks(pending)) ELSE exFreeEPWX
             /\ activeOrders' = IF cancelled THEN activeOrders \ {old.orderId}
                                ELSE activeOrders
             /\ cyc' = [cyc EXCEPT ![c] =
                          IF called.excess = <<>> THEN AfterCancelOld(called) ELSE called]
    /\ UNCHANGED <<guardVars, lifeVars, monVars, currentPosition, isRunning, orderTimer, orderPrices,
                   volumeStats, washTrades, washTradePairsActive, dexFeed, ticksLeft>>

\* what placeBuyOrder and placeSellOrder of this revision record for an order
\* the exchange returned (lines 633-640, 658-665): it is tracked and counted,
\* and its value is booked as volume at once
TakerStats(stats, side, volume) ==
    [orderCount |-> stats.orderCount + 1,
     totalVolume |-> RAdd(stats.totalVolume, volume),
     buyVolume |-> IF side = "BUY" THEN RAdd(stats.buyVolume, volume)
                   ELSE stats.buyVolume,
     sellVolume |-> IF side = "SELL" THEN RAdd(stats.sellVolume, volume)
                    ELSE stats.sellVolume]

\* placeBuyOrder (lines 623-646) at referencePrice * (1 - spread): the request
\* is refused beyond the free USDT, a refusal or failure is caught and logged
TakerPlaceBuy(c) ==
    /\ cyc[c].pc = "placeBuy"
    /\ \E failed \in Failures :
         LET price == RMul(cyc[c].referencePrice, RSub(RInt(1), SpreadMultiplier))
             amount == cyc[c].orderSize
             lock == RMul(FormatAmount(amount), FormatPrice(price))
             accepted == ~failed /\ RLt(RZero, lock) /\ RLe(lock, exFreeUSDT)
             id == <<c, 1>>
         IN  /\ exEvents' = IF failed THEN exEvents - 1 ELSE exEvents
             /\ exFreeUSDT' = IF accepted THEN RSub(exFreeUSDT, lock) ELSE exFreeUSDT
             /\ exOrders' = IF accepted
                            THEN exOrders \cup {[orderId |-> id, side |-> "BUY",
                                                 lock |-> lock]}
                            ELSE exOrders
             /\ activeOrders' = IF accepted THEN activeOrders \cup {id} ELSE activeOrders
             /\ volumeStats' = IF accepted
                               THEN TakerStats(volumeStats, "BUY", RMul(amount, price))
                               ELSE volumeStats
             /\ currentPosition' = IF accepted THEN RAdd(currentPosition, amount)
                                   ELSE currentPosition
             /\ cyc' = [cyc EXCEPT ![c].pc = IF cyc[c].canSell THEN "placeSell"
                                             ELSE "done"]
    /\ UNCHANGED <<guardVars, lifeVars, monVars, isRunning, orderTimer, orderPrices, washTrades,
                   washTradePairsActive, exFreeEPWX, dexFeed, ticksLeft>>

\* placeSellOrder (lines 648-671) at referencePrice * (1 + spread)
TakerPlaceSell(c) ==
    /\ cyc[c].pc = "placeSell"
    /\ \E failed \in Failures :
         LET price == RMul(cyc[c].referencePrice, RAdd(RInt(1), SpreadMultiplier))
             amount == cyc[c].orderSize
             amountStr == FormatAmount(amount)
             accepted == /\ ~failed
                         /\ RLt(RZero, amountStr) /\ RLt(RZero, FormatPrice(price))
                         /\ RLe(amountStr, exFreeEPWX)
             id == <<c, 2>>
         IN  /\ exEvents' = IF failed THEN exEvents - 1 ELSE exEvents
             /\ exFreeEPWX' = IF accepted THEN RSub(exFreeEPWX, amountStr) ELSE exFreeEPWX
             /\ exOrders' = IF accepted
                            THEN exOrders \cup {[orderId |-> id, side |-> "SELL",
                                                 lock |-> amountStr]}
                            ELSE exOrders
             /\ activeOrders' = IF accepted THEN activeOrders \cup {id} ELSE activeOrders
             /\ volumeStats' = IF accepted
                               THEN TakerStats(volumeStats, "SELL", RMul(amount, price))
                               ELSE volumeStats
             /\ currentPosition' = IF accepted THEN RSub(currentPosition, amount)
                                   ELSE currentPosition
             /\ cyc' = [cyc EXCEPT ![c].pc = "done"]
    /\ UNCHANGED <<guardVars, lifeVars, monVars, isRunning, orderTimer, orderPrices, washTrades,
                   washTradePairsActive, exFreeUSDT, dexFeed, ticksLeft>>

InitTaker ==
    /\ GuardUnused
    /\ IdleMaintainer
    /\ exFreeUSDT = RInt(1500) /\ exFreeEPWX = RInt(1500)
    /\ exOrders = {}
    /\ dexFeed = [ok |-> TRUE, price |-> RInt(1)]
    /\ ticksLeft = TakerTicks
    /\ exEvents = TakerEvents

NextTaker ==
    \/ Start
    \/ TakerOrderTimer
    \/ \E c \in DOMAIN cyc : TakerMarketData(c)
    \/ \E c \in DOMAIN cyc : TakerCancelOld(c)
    \/ \E c \in DOMAIN cyc : TakerPlaceBuy(c)
    \/ \E c \in DOMAIN cyc : TakerPlaceSell(c)

SpecTaker == InitTaker /\ [][NextTaker]_vars

(***************************************************************************)
(* Tracker: the monitoring loop                                            *)
(* An invocation of the monitoring callback (lines 165-177) runs           *)
(* updateOrderStatus over one batch of the tracked orders, then            *)
(* checkAndRebalancePosition and logPerformance.  Its steps are the        *)
(* answers of getOrder; the pauses that follow an answer (the backoff      *)
(* after a rate limit, 1500 ms otherwise) are part of the step.            *)
(***************************************************************************)
batchSize == 5
InitialBackoff == 1000
MaxBackoff == 15000
WashSpreadPercent == R(3, 10)
WashSpreadTolerance == R(5, 100)
\* config.marketMaking.positionRebalanceThreshold (default of config/index.ts)
positionRebalanceThreshold == RInt(1000)

Min(a, b) == IF a <= b THEN a ELSE b

\* Array.from(this.activeOrders.keys()): the tracked ids in insertion order
TrackedOrderIds(tracked) ==
    RankedList(tracked,
               [id \in tracked |->
                   1 + Cardinality({q \in tracked : ListedBefore(q, id)})])

\* orderIds.slice(start, end)
Slice(list, start, end) ==
    IF start < end THEN SubSeq(list, start + 1, end) ELSE <<>>

\* checkAndRebalancePosition (lines 655-662) after the batch: beyond the
\* threshold it cancels all orders, otherwise the invocation ends
AfterBatch(r, position) ==
    IF RLt(positionRebalanceThreshold, RAbs(position))
    THEN [r EXCEPT !.pc = "cancelAllOrders"]
    ELSE [r EXCEPT !.pc = "done"]

\* the invocation at the start of updateOrderStatus (lines 556-564)
NewTick(orderIds, start) ==
    [pc |-> "getOrder", orderIds |-> orderIds, start |-> start,
     batch |-> Slice(orderIds, start, Min(start + batchSize, Len(orderIds))),
     k |-> 1, backoff |-> InitialBackoff, delays |-> <<>>]

\* line 563 without the return to the head of the list
NextStatusIndex_NoWrap(n, start) == Min(start + batchSize, n)

\* this.orderStatusIndex after line 563
NextStatusIndex(n, start) ==
    IF Min(start + batchSize, n) >= n THEN 0 ELSE Min(start + batchSize, n)

\* isRealFill (lines 582-599): the spread of the fill against the intended
\* price of the order, in percent, compared with 0.3
SpreadPercent(side, intended, price) ==
    IF side = "BUY"
    THEN RMul(RDiv(RSub(intended, price), intended), RInt(100))
    ELSE RMul(RDiv(RSub(price, intended), intended), RInt(100))

IsRealFill(side, intended, price) ==
    RLt(WashSpreadTolerance,
        RAbs(RSub(SpreadPercent(side, intended, price), WashSpreadPercent)))

\* the invocation after the order at position k of its batch was handled:
\* the next order of the batch, or what follows updateOrderStatus
NextInBatch(r, position) ==
    IF r.k < Len(r.batch) THEN [r EXCEPT !.k = r.k + 1]
    ELSE AfterBatch([r EXCEPT !.k = r.k + 1], position)

TrackerTicks == 3
TrackerOverlap == 2
TrackerEvents == 5

\* the invocations of the monitoring callback that have not returned
Monitoring == {t \in DOMAIN trk : trk[t].pc # "done"}

\* the setInterval callback of startMonitoringLoop (lines 165-177) fires: a new
\* invocation, whatever the earlier ones are doing; without tracked orders
\* updateOrderStatus returns at once (line 558)
TimerFires(maxTicks) ==
    /\ updateTimer /\ isRunning
    /\ Len(trk) < maxTicks /\ Cardinality(Monitoring) < TrackerOverlap
    /\ LET orderIds == TrackedOrderIds(activeOrders)
           tick == NewTick(orderIds, orderStatusIndex)
       IN  IF orderIds = <<>>
           THEN /\ trk' = Append(trk, AfterBatch([tick EXCEPT !.batch = <<>>],
                                                 currentPosition))
                /\ UNCHANGED orderStatusIndex
           ELSE /\ trk' = Append(trk, IF tick.batch = <<>>
                                      THEN AfterBatch(tick, currentPosition)
                                      ELSE tick)
                /\ orderStatusIndex' = NextStatusIndex(Len(orderIds), orderStatusIndex)
    /\ UNCHANGED <<guardVars, lifeVars, botVars, updateTimer, realFills, envVars>>

UpdateTimer == TimerFires(TrackerTicks)

\* what getOrder of the client answers for orderId (service lines 333-374): a
\* pending order is reported with status NEW, an order that is no longer pending
\* raises 'Order not found or already completed'; while failures are left the
\* call may fail with a rate limit (HTTP 429) or with another error
ClientAnswers(orderId) ==
    (IF \E o \in exOrders : o.orderId = orderId
     THEN {[kind |-> "order", status |-> "NEW", filled |-> RZero,
            side |-> (CHOOSE o \in exOrders : o.orderId = orderId).side,
            price |-> IF orderId \in DOMAIN orderPrices
                      THEN orderPrices[orderId].price ELSE RZero]}
     ELSE {[kind |-> "notFound"]})
        \cup (IF exEvents > 0 THEN {[kind |-> "rateLimit"], [kind |-> "error"]} ELSE {})

\* StatsAfterFill without line 575: the fill of a BUY order is added to the
\* total only
StatsAfterFill_BuyDropped(stats, side, volumeUSD) ==
    [stats EXCEPT !.totalVolume = RAdd(@, volumeUSD),
                  !.sellVolume = IF side = "BUY" THEN @ ELSE RAdd(@, volumeUSD)]

\* this.volumeStats after a FILLED answer (lines 569-579)
StatsAfterFill(stats, side, volumeUSD) ==
    [stats EXCEPT !.totalVolume = RAdd(@, volumeUSD),
                  !.buyVolume = IF side = "BUY" THEN RAdd(@, volumeUSD) ELSE @,
                  !.sellVolume = IF side = "BUY" THEN @ ELSE RAdd(@, volumeUSD)]

\* line 638 without the cap
NextBackoff_Uncapped(backoff) == backoff * 2

\* backoff after a rate-limited call (line 638)
NextBackoff(backoff) == Min(backoff * 2, MaxBackoff)

\* the body of the batch loop for the order at position k (lines 565-651)
OrderAnswered(t, r, orderId, answer, filled, removed) ==
    LET position == IF ~filled THEN currentPosition
                    ELSE IF answer.side = "BUY"
                    THEN RAdd(currentPosition, answer.filled)
                    ELSE RSub(currentPosition, answer.filled)
        isRealFill == IF orderId \in DOMAIN orderPrices
                      THEN IsRealFill(answer.side, orderPrices[orderId].price,
                                      answer.price)
                      ELSE TRUE
    IN  /\ exEvents' = IF answer.kind \in {"rateLimit", "error"}
                       THEN exEvents - 1 ELSE exEvents
        /\ activeOrders' = IF removed THEN activeOrders \ {orderId} ELSE activeOrders
        /\ orderPrices' = IF removed
                          THEN [id \in DOMAIN orderPrices \ {orderId} |-> orderPrices[id]]
                          ELSE orderPrices
        /\ volumeStats' = IF filled
                          THEN StatsAfterFill(volumeStats, answer.side,
                                              RMul(answer.filled, answer.price))
                          ELSE volumeStats
        /\ currentPosition' = position
        /\ realFills' = IF filled /\ isRealFill THEN realFills + 1 ELSE realFills
        /\ washTrades' = IF filled /\ ~isRealFill THEN washTrades + 1 ELSE washTrades
        /\ trk' = [trk EXCEPT ![t] =
                     IF answer.kind = "rateLimit"
                     THEN NextInBatch([r EXCEPT !.delays = Append(@, r.backoff),
                                                !.backoff = NextBackoff(r.backoff)],
                                      position)
                     ELSE NextInBatch(r, position)]

\* getOrder answers in the batch loop of invocation t
GetOrderAnswered(t, answer) ==
    /\ OrderAnswered(t, trk[t], trk[t].batch[trk[t].k], answer,
                     answer.kind = "order" /\ answer.status = "FILLED",
                     \/ answer.kind = "notFound"
                     \/ answer.kind = "order" /\ answer.status \in {"FILLED", "CANCELED"})
    /\ UNCHANGED <<guardVars, lifeVars, isRunning, orderTimer, cyc, washTradePairsActive,
                   updateTimer, orderStatusIndex, exFreeUSDT, exFreeEPWX, exOrders,
                   dexFeed, ticksLeft>>

\* getOrder of the client answers
GetOrderResponse(t) ==
    /\ trk[t].pc = "getOrder"
    /\ \E answer \in ClientAnswers(trk[t].batch[trk[t].k]) : GetOrderAnswered(t, answer)

\* checkAndRebalancePosition, cancelAllOrders answers (lines 663-665): a failure
\* is caught and ends the invocation, otherwise the tracking map is cleared
RebalanceCancelAll(t) ==
    /\ trk[t].pc = "cancelAllOrders"
    /\ \E failed \in Failures :
         IF failed
         THEN /\ exEvents' = exEvents - 1
              /\ trk' = [trk EXCEPT ![t].pc = "done"]
              /\ UNCHANGED <<activeOrders, exFreeUSDT, exFreeEPWX, exOrders>>
         ELSE /\ exFreeUSDT' =
                   RAdd(exFreeUSDT, SumLocks({o \in exOrders : o.side = "BUY"}))
              /\ exFreeEPWX' =
                   RAdd(exFreeEPWX, SumLocks({o \in exOrders : o.side = "SELL"}))
              /\ exOrders' = {}
              /\ activeOrders' = {}
              /\ trk' = [trk EXCEPT ![t].pc = "placeOrder"]
              /\ UNCHANGED exEvents
    /\ UNCHANGED <<guardVars, lifeVars, isRunning, orderTimer, cyc, orderPrices, volumeStats,
                   washTrades, washTradePairsActive, currentPosition, updateTimer,
                   orderStatusIndex, realFills, dexFeed, ticksLeft>>

\* checkAndRebalancePosition, getTicker and placeOrder answer (lines 667-691):
\* half of the position is offered at the ticker's ask, or bid at the ticker's
\* bid (the ticker quotes the price of dexFeed on both sides); the order is not
\* tracked, and a failure is caught
RebalanceOrder(t) ==
    /\ trk[t].pc = "placeOrder"
    /\ \E failed \in Failures :
         LET side == IF RLt(RZero, currentPosition) THEN "SELL" ELSE "BUY"
             amountStr == FormatAmount(RMul(RAbs(currentPosition), R(1, 2)))
             priceStr == FormatPrice(dexFeed.price)
             lock == IF side = "SELL" THEN amountStr ELSE RMul(amountStr, priceStr)
             free == IF side = "SELL" THEN exFreeEPWX ELSE exFreeUSDT
             accepted == /\ ~failed /\ dexFeed.ok
                         /\ RLt(RZero, amountStr) /\ RLt(RZero, priceStr)
                         /\ RLe(lock, free)
         IN  /\ exEvents' = IF failed THEN exEvents - 1 ELSE exEvents
             /\ exFreeEPWX' = IF accepted /\ side = "SELL"
                              THEN RSub(exFreeEPWX, lock) ELSE exFreeEPWX
             /\ exFreeUSDT' = IF accepted /\ side = "BUY"
                              THEN RSub(exFreeUSDT, lock) ELSE exFreeUSDT
             /\ exOrders' = IF accepted
                            THEN exOrders \cup {[orderId |-> <<Len(cyc) + 1, t>>,
                                                 side |-> side, lock |-> lock]}
                            ELSE exOrders
             /\ trk' = [trk EXCEPT ![t].pc = "done"]
    /\ UNCHANGED <<guardVars, lifeVars, botVars, updateTimer, orderStatusIndex, realFills,
                   dexFeed, ticksLeft>>

\* stop() without the clearInterval of lines 134-137: the monitoring timer
\* stays armed
Stop_KeepsMonitoring ==
    /\ isRunning \/ orderTimer \/ updateTimer
    /\ isRunning' = FALSE
    /\ orderTimer' = FALSE
    /\ \E failed \in Failures :
         IF failed
         THEN /\ exEvents' = exEvents - 1
              /\ UNCHANGED <<activeOrders, exFreeUSDT, exFreeEPWX, exOrders>>
         ELSE /\ exFreeUSDT' =
                   RAdd(exFreeUSDT, SumLocks({o \in exOrders : o.side = "BUY"}))
              /\ exFreeEPWX' =
                   RAdd(exFreeEPWX, SumLocks({o \in exOrders : o.side = "SELL"}))
              /\ exOrders' = {}
              /\ activeOrders' = {}
              /\ UNCHANGED exEvents
    /\ UNCHANGED <<guardVars, lifeVars, cyc, orderPrices, volumeStats, washTrades,
                   washTradePairsActive, currentPosition, updateTimer,
                   orderStatusIndex, trk, realFills, dexFeed, ticksLeft>>

\* stop() (lines 125-148): the flag and both timers are cleared, then
\* cancelAllOrders is called once; when it succeeds the tracking map is cleared,
\* when it fails the failure is caught and logged.  logFinalStats only logs.
Stop ==
    /\ isRunning \/ orderTimer \/ updateTimer
    /\ isRunning' = FALSE
    /\ orderTimer' = FALSE
    /\ updateTimer' = FALSE
    /\ \E failed \in Failures :
         IF failed
         THEN /\ exEvents' = exEvents - 1
              /\ UNCHANGED <<activeOrders, exFreeUSDT, exFreeEPWX, exOrders>>
         ELSE /\ exFreeUSDT' =
                   RAdd(exFreeUSDT, SumLocks({o \in exOrders : o.side = "BUY"}))
              /\ exFreeEPWX' =
                   RAdd(exFreeEPWX, SumLocks({o \in exOrders : o.side = "SELL"}))
              /\ exOrders' = {}
              /\ activeOrders' = {}
              /\ UNCHANGED exEvents
    /\ UNCHANGED <<guardVars, lifeVars, cyc, orderPrices, volumeStats, washTrades,
                   washTradePairsActive, currentPosition, orderStatusIndex, trk,
                   realFills, dexFeed, ticksLeft>>

(***************************************************************************)
(* SpecLifecycle: calls of start() and stop() in any order.  start() is    *)
(* followed through its awaited calls, so that a stop() or another start() *)
(* can arrive in between; the timers do not fire in these behaviours.      *)
(***************************************************************************)
MaxStarts == 3
LifeEvents == 1

\* start() is called (lines 79-97): it returns at once on a running bot,
\* otherwise it sets the flag and calls cancelAllOrders
StartCalled ==
    /\ ~isRunning /\ Len(starting) < MaxStarts
    /\ isRunning' = TRUE
    /\ starting' = Append(starting, "cancelAllOrders")
    /\ UNCHANGED <<guardVars, orderTimer, cyc, activeOrders, orderPrices, volumeStats,
                   washTrades, washTradePairsActive, currentPosition, monVars,
                   unreferenced, envVars>>

\* cancelAllOrders answers the s-th call of start() (lines 101-107): a failure is
\* caught and logged; logBalances is called next
StartCancelAnswered(s) ==
    /\ starting[s] = "cancelAllOrders"
    /\ starting' = [starting EXCEPT ![s] = "logBalances"]
    /\ \E failed \in Failures :
         IF failed
         THEN /\ exEvents' = exEvents - 1
              /\ UNCHANGED <<exFreeUSDT, exFreeEPWX, exOrders>>
         ELSE /\ exFreeUSDT' =
                   RAdd(exFreeUSDT, SumLocks({o \in exOrders : o.side = "BUY"}))
              /\ exFreeEPWX' =
                   RAdd(exFreeEPWX, SumLocks({o \in exOrders : o.side = "SELL"}))
              /\ exOrders' = {}
              /\ UNCHANGED exEvents
    /\ UNCHANGED <<guardVars, botVars, monVars, unreferenced, dexFeed, ticksLeft>>

\* logBalances returns to the s-th call of start() (lines 110-116), having
\* caught a failure of getBalances itself (725-737); startOrderPlacementLoop and
\* startMonitoringLoop assign a new interval timer to orderTimer and to
\* updateTimer (153, 166), and a timer the field held before stays armed
StartBalancesLogged(s) ==
    /\ starting[s] = "logBalances"
    /\ starting' = [starting EXCEPT ![s] = "done"]
    /\ \E failed \in Failures : exEvents' = IF failed THEN exEvents - 1 ELSE exEvents
    /\ orderTimer' = TRUE
    /\ updateTimer' = TRUE
    /\ unreferenced' =
          [orderTimers |-> unreferenced.orderTimers + (IF orderTimer THEN 1 ELSE 0),
           updateTimers |-> unreferenced.updateTimers + (IF updateTimer THEN 1 ELSE 0)]
    /\ UNCHANGED <<guardVars, isRunning, cyc, activeOrders, orderPrices, volumeStats,
                   washTrades, washTradePairsActive, currentPosition,
                   orderStatusIndex, trk, realFills,
                   exFreeUSDT, exFreeEPWX, exOrders, dexFeed, ticksLeft>>

InitLifecycle ==
    /\ GuardUnused
    /\ IdleMaintainer
    /\ exFreeUSDT \in UsdtVals
    /\ exFreeEPWX \in EpwxVals
    /\ exOrders \in PriorBooks
    /\ dexFeed = [ok |-> TRUE, price |-> R(1, 95)]
    /\ ticksLeft = 0
    /\ exEvents \in 0..LifeEvents

NextLifecycle ==
    \/ StartCalled
    \/ \E s \in DOMAIN starting : StartCancelAnswered(s)
    \/ \E s \in DOMAIN starting : StartBalancesLogged(s)
    \/ Stop

SpecLifecycle == InitLifecycle /\ [][NextLifecycle]_vars

(***************************************************************************)
(* SpecShutdown: one firing of the order timer on an account with 30 USDT  *)
(* and 100 EPWX and an exchange that neither fails nor matches, with       *)
(* stop() called at any moment of the cycle and no start() after it.       *)
(***************************************************************************)
InitShutdown ==
    /\ GuardUnused
    /\ IdleMaintainer
    /\ exFreeUSDT = RInt(30)
    /\ exFreeEPWX = RInt(100)
    /\ exOrders \in PriorBooks
    /\ dexFeed = [ok |-> TRUE, price |-> R(1, 95)]
    /\ ticksLeft = 1
    /\ exEvents = 0

NextShutdown ==
    \/ cyc = <<>> /\ Start
    \/ OrderTimer
    \/ \E c \in DOMAIN cyc : DexResponse(c)
    \/ \E c \in DOMAIN cyc : OpenOrdersResponse(c)
    \/ \E c \in DOMAIN cyc : BalancesResponse(c)
    \/ \E c \in DOMAIN cyc : PlaceBuyOrderBalances(c)
    \/ \E c \in DOMAIN cyc : PlaceBuyOrderSubmit(c)
    \/ \E c \in DOMAIN cyc : PlaceSellOrderBalances(c)
    \/ \E c \in DOMAIN cyc : PlaceSellOrderSubmit(c)
    \/ Stop

SpecShutdown == InitShutdown /\ [][NextShutdown]_vars

(***************************************************************************)
(* SpecLedger: one firing of the order timer on the account of             *)
(* SpecShutdown, followed by the monitoring loop, with an exchange that    *)
(* may match one order on arrival and whose getOrder reports the statuses  *)
(* of the Order type (service line 27): a pending order is NEW, a matched  *)
(* order is FILLED with the amount and price of its trade.  The schedules  *)
(* followed are those in which the monitoring timer fires once the cycle   *)
(* has returned.                                                           *)
(***************************************************************************)
LedgerTicks == 2
LedgerEvents == 1

\* the trades the exchange made so far
Deals == UNION {{cyc[c].deals[k] : k \in DOMAIN cyc[c].deals} : c \in DOMAIN cyc}

\* getOrder of an exchange that reports fills: the amount and price of the trade
\* of a matched order, whose product is the value of the trade
SettledAnswers(orderId) ==
    IF \E o \in exOrders : o.orderId = orderId
    THEN {[kind |-> "order", status |-> "NEW", filled |-> RZero,
           side |-> (CHOOSE o \in exOrders : o.orderId = orderId).side,
           price |-> IF orderId \in DOMAIN orderPrices
                     THEN orderPrices[orderId].price ELSE RZero]}
    ELSE IF \E d \in Deals : d.orderId = orderId
    THEN LET deal == CHOOSE d \in Deals : d.orderId = orderId
         IN  {[kind |-> "order", status |-> "FILLED",
               filled |-> RDiv(deal.volume, deal.price),
               side |-> deal.side, price |-> deal.price]}
    ELSE {[kind |-> "notFound"]}

\* getOrder answers with the status of the order
GetOrderSettled(t) ==
    /\ trk[t].pc = "getOrder"
    /\ \E answer \in SettledAnswers(trk[t].batch[trk[t].k]) : GetOrderAnswered(t, answer)

UpdateTimerLedger ==
    /\ cyc # <<>> /\ \A c \in DOMAIN cyc : cyc[c].pc = "done"
    /\ TimerFires(LedgerTicks)

InitLedger ==
    /\ GuardUnused
    /\ IdleMaintainer
    /\ exFreeUSDT = RInt(30)
    /\ exFreeEPWX = RInt(100)
    /\ exOrders = {}
    /\ dexFeed = [ok |-> TRUE, price |-> R(1, 95)]
    /\ ticksLeft = 1
    /\ exEvents = LedgerEvents

NextLedger ==
    \/ cyc = <<>> /\ Start
    \/ OrderTimer
    \/ \E c \in DOMAIN cyc : DexResponse(c)
    \/ \E c \in DOMAIN cyc : OpenOrdersResponse(c)
    \/ \E c \in DOMAIN cyc : BalancesResponse(c)
    \/ \E c \in DOMAIN cyc : PlaceBuyOrderBalances(c)
    \/ \E c \in DOMAIN cyc : PlaceBuyOrderSubmit(c)
    \/ \E c \in DOMAIN cyc : PlaceSellOrderBalances(c)
    \/ \E c \in DOMAIN cyc : PlaceSellOrderSubmit(c)
    \/ UpdateTimerLedger
    \/ \E t \in DOMAIN trk : GetOrderSettled(t)

SpecLedger == InitLedger /\ [][NextLedger]_vars

(***************************************************************************)
(* SpecTracker follows the monitoring loop of a running bot whose order    *)
(* timer does not fire in these behaviours.  The bot tracks n orders of    *)
(* earlier cycles, of which those in gone are no longer pending at the     *)
(* exchange (filled, cancelled or trimmed in the meantime).                *)
(***************************************************************************)
TrackedSide(k) == IF k % 2 = 1 THEN "BUY" ELSE "SELL"

TrackerScenes ==
    {[n |-> 0, gone |-> {}], [n |-> 3, gone |-> {2}], [n |-> 7, gone |-> {}],
     [n |-> 7, gone |-> {1, 6}], [n |-> 7, gone |-> 1..7]}

\* the bot tracks the orders <<1, 1>> .. <<1, n>>, placed at price 1
Tracking(n) ==
    /\ isRunning = TRUE /\ orderTimer = TRUE /\ updateTimer = TRUE
    /\ cyc = <<>>
    /\ activeOrders = {<<1, k>> : k \in 1..n}
    /\ orderPrices = [id \in {<<1, k>> : k \in 1..n} |->
                         [side |-> TrackedSide(id[2]), price |-> RInt(1)]]
    /\ volumeStats = [totalVolume |-> RZero, buyVolume |-> RZero,
                      sellVolume |-> RZero, orderCount |-> n]
    /\ washTrades = 0
    /\ washTradePairsActive = <<>>
    /\ currentPosition = RZero
    /\ orderStatusIndex = 0
    /\ trk = <<>>
    /\ realFills = 0
    /\ starting = <<>>
    /\ unreferenced = [orderTimers |-> 0, updateTimers |-> 0]

\* the exchange account holds the orders <<1, k>>, k in 1..n outside gone
Pending(n, gone) ==
    /\ exFreeUSDT = RInt(30) /\ exFreeEPWX = RInt(30)
    /\ exOrders = {[orderId |-> <<1, k>>, side |-> TrackedSide(k), lock |-> RInt(1)] :
                      k \in (1..n) \ gone}
    /\ dexFeed = [ok |-> TRUE, price |-> RInt(1)]
    /\ ticksLeft = 0

InitTracker ==
    /\ GuardUnused
    /\ \E scene \in TrackerScenes : Tracking(scene.n) /\ Pending(scene.n, scene.gone)
    /\ exEvents \in {0, TrackerEvents}

NextTracker ==
    \/ UpdateTimer
    \/ \E t \in DOMAIN trk : GetOrderResponse(t)
    \/ Stop

SpecTracker == InitTracker /\ [][NextTracker]_vars

(***************************************************************************)
(* SpecFills follows the same loop with a client that reports the statuses *)
(* of the Order type (service line 27) and the price and amount of the     *)
(* fill, for a bot that tracks one BUY and one SELL order placed at 1.00.  *)
(***************************************************************************)
FillPrices == {R(997, 1000), RInt(1), R(1003, 1000), R(105, 100)}
FillAmounts == {RInt(1), RInt(1001)}
FillEvents == 1

ReportedAnswers(orderId) ==
    {[kind |-> "order", status |-> status, side |-> TrackedSide(orderId[2]),
      price |-> price, filled |-> amount] :
        status \in {"NEW", "FILLED", "CANCELED"}, price \in FillPrices,
        amount \in FillAmounts}

\* getOrder answers with a reported status
GetOrderReported(t) ==
    /\ trk[t].pc = "getOrder"
    /\ \E answer \in ReportedAnswers(trk[t].batch[trk[t].k]) : GetOrderAnswered(t, answer)

InitFills ==
    /\ GuardUnused
    /\ Tracking(2) /\ Pending(2, {})
    /\ exEvents = FillEvents

NextFills ==
    \/ UpdateTimer
    \/ \E t \in DOMAIN trk : GetOrderReported(t)
    \/ \E t \in DOMAIN trk : RebalanceCancelAll(t)
    \/ \E t \in DOMAIN trk : RebalanceOrder(t)

SpecFills == InitFills /\ [][NextFills]_vars

(***************************************************************************)
(* SpecSteady follows both loops of a running bot on an account without    *)
(* funds (every order request is refused by the exchange), with an oracle  *)
(* that fails or quotes, and with exchange calls that fail, under the      *)
(* schedules in which a timer fires after the invocations of the order     *)
(* timer have returned.                                                    *)
(***************************************************************************)
SteadyTicks == 2
SteadyEvents == 2

CyclesReturned == \A c \in DOMAIN cyc : cyc[c].pc = "done"

InitSteady ==
    /\ GuardUnused
    /\ Tracking(3)
    /\ exFreeUSDT = RZero /\ exFreeEPWX = RZero
    /\ exOrders = {[orderId |-> <<1, k>>, side |-> TrackedSide(k), lock |-> RInt(1)] :
                      k \in {1, 3}}
    /\ dexFeed \in {[ok |-> FALSE, price |-> RZero], [ok |-> TRUE, price |-> R(1, 95)]}
    /\ ticksLeft = SteadyTicks
    /\ exEvents = SteadyEvents

NextSteady ==
    \/ CyclesReturned /\ Monitoring = {} /\ OrderTimer
    \/ \E c \in DOMAIN cyc : DexResponse(c)
    \/ \E c \in DOMAIN cyc : OpenOrdersResponse(c)
    \/ \E c \in DOMAIN cyc : BalancesResponse(c)
    \/ \E c \in DOMAIN cyc : PlaceBuyOrderBalances(c)
    \/ \E c \in DOMAIN cyc : PlaceBuyOrderSubmit(c)
    \/ \E c \in DOMAIN cyc : PlaceSellOrderBalances(c)
    \/ \E c \in DOMAIN cyc : PlaceSellOrderSubmit(c)
    \/ CyclesReturned /\ UpdateTimer
    \/ \E t \in DOMAIN trk : GetOrderResponse(t)

SpecSteady == InitSteady /\ [][NextSteady]_vars

(***************************************************************************)
(* SpecTrackerLive: the monitoring loop under fair scheduling.  The timer  *)
(* keeps firing (as often as LiveTicks allows) and every getOrder call is  *)
(* answered; stop() is not called.                                         *)
(***************************************************************************)
LiveTicks == 6
LiveEvents == 1

UpdateTimerLive == TimerFires(LiveTicks)

InitTrackerLive ==
    /\ GuardUnused
    /\ \E scene \in TrackerScenes : Tracking(scene.n) /\ Pending(scene.n, scene.gone)
    /\ exEvents = LiveEvents

NextTrackerLive ==
    \/ UpdateTimerLive
    \/ \E t \in DOMAIN trk : GetOrderResponse(t)

SpecTrackerLive ==
    /\ InitTrackerLive /\ [][NextTrackerLive]_vars
    /\ WF_vars(UpdateTimerLive)
    /\ \A t \in 1..LiveTicks : WF_vars(t \in DOMAIN trk /\ GetOrderResponse(t))

(***************************************************************************)
(* SpecSweep follows the monitoring loop of the revision whose             *)
(* updateOrderStatus polls every tracked order in each invocation and      *)
(* drops an order on any error (part_001 lines 788-825).                   *)
(***************************************************************************)
\* the monitoring callback of that revision fires
SweepTimer ==
    /\ updateTimer /\ isRunning
    /\ Len(trk) < TrackerTicks /\ Cardinality(Monitoring) < TrackerOverlap
    /\ LET orderIds == TrackedOrderIds(activeOrders)
           tick == [NewTick(orderIds, 0) EXCEPT !.batch = orderIds]
       IN  trk' = Append(trk, IF orderIds = <<>>
                              THEN AfterBatch(tick, currentPosition) ELSE tick)
    /\ UNCHANGED <<guardVars, lifeVars, botVars, updateTimer, orderStatusIndex, realFills,
                   envVars>>

\* getOrder answers in the loop of lines 791-823: FILLED is booked and dropped,
\* CANCELED is dropped, and so is the order of any call that throws
GetOrderSwept(t) ==
    /\ trk[t].pc = "getOrder"
    /\ \E answer \in ClientAnswers(trk[t].batch[trk[t].k]) :
         LET orderId == trk[t].batch[trk[t].k]
             filled == answer.kind = "order" /\ answer.status = "FILLED"
             removed == \/ answer.kind # "order"
                        \/ answer.status \in {"FILLED", "CANCELED"}
             position == IF ~filled THEN currentPosition
                         ELSE IF answer.side = "BUY"
                         THEN RAdd(currentPosition, answer.filled)
                         ELSE RSub(currentPosition, answer.filled)
         IN  /\ exEvents' = IF answer.kind \in {"rateLimit", "error"}
                            THEN exEvents - 1 ELSE exEvents
             /\ activeOrders' = IF removed THEN activeOrders \ {orderId}
                                ELSE activeOrders
             /\ volumeStats' = IF filled
                               THEN StatsAfterFill(volumeStats, answer.side,
                                                   RMul(answer.filled, answer.price))
                               ELSE volumeStats
             /\ currentPosition' = position
             /\ trk' = [trk EXCEPT ![t] = NextInBatch(trk[t], position)]
    /\ UNCHANGED <<guardVars, lifeVars, isRunning, orderTimer, cyc, orderPrices, washTrades,
                   washTradePairsActive, updateTimer, orderStatusIndex, realFills,
                   exFreeUSDT, exFreeEPWX, exOrders, dexFeed, ticksLeft>>

NextSweep ==
    \/ SweepTimer
    \/ \E t \in DOMAIN trk : GetOrderSwept(t)

SpecSweep == InitTracker /\ [][NextSweep]_vars

(***************************************************************************)
(* Maintainer claims                                                       *)
(***************************************************************************)
\* the order request of cycle c as the client sends it (service lines 212-235)
RequestAmount(c) == FormatAmount(PlacementAmount(cyc[c]))
RequestNotional(c) ==
    RMul(FormatAmount(PlacementAmount(cyc[c])), FormatPrice(PlacementPrice(cyc[c])))
\* cycle c has called placeOrder
Submitted(c) == cyc[c].pc = "placeOrder"
\* the Guard on the balance cycle c sized its orders with, for the
\* targetOrdersPerSide * 2 orders of the cycle, every option at its default
GuardOfCycle(c) ==
    computeSafeOrderSizeUSD_A(
        [freeUSDT |-> cyc[c].availableUSDT,
         totalOrdersToPlace |-> targetOrdersPerSide * 2,
         reservedForActiveOrdersUSD |-> Undef, feeBufferUSD |-> Undef,
         minFreeUSD |-> Undef, orderSizePercent |-> Undef,
         maxOrderUSDCap |-> Undef, minOrderSize |-> Undef])

\* C8: a book-depth order is submitted only in a cycle whose balance the Guard
\* allows; when the Guard rejects (free balance at or below the minimum-free
\* threshold, for one) the cycle submits no order.
C8_NoOrderWithoutGuardApproval ==
    \A c \in DOMAIN cyc :
        (Submitted(c) /\ cyc[c].phase \in {"bookBuys", "bookSells", "sells"})
            => GuardOfCycle(c).allowed

\* C9: no BUY order reaches the exchange with a notional above the free USDT
\* balance of that moment, however the timer callbacks interleave.
C9_BuyWithinFreeBalance ==
    [][\A c \in DOMAIN cyc :
          (Submitted(c) /\ cyc[c].side = "BUY" /\ cyc'[c].pc # "placeOrder")
              => RLe(RequestNotional(c), exFreeUSDT)]_vars

\* C10: no order is submitted whose token amount, after the client's flooring
\* or rounding, is zero or negative.
C10_PositiveAmountSubmitted ==
    \A c \in DOMAIN cyc : Submitted(c) => RLt(RZero, RequestAmount(c))

(***************************************************************************)
(* Cycle claims                                                            *)
(***************************************************************************)
\* the oracle threw, reported its failure as -1, or quoted zero
OracleFailed == ~dexFeed.ok \/ dexFeed.price = RInt(-1) \/ dexFeed.price = RZero

\* C11: when the oracle fails or yields no usable reference price, however the
\* failure is reported, no cycle reaches a placeOrder (or cancelOrder) call.
C11_NoOrdersWithoutPrice ==
    OracleFailed => \A c \in DOMAIN cyc : ~Submitted(c)

\* needBuys and needSells of a cycle that has read the open orders
NeedBuys(r) == IF r.buys < targetOrdersPerSide THEN targetOrdersPerSide - r.buys ELSE 0
NeedSells(r) == IF r.sells < targetOrdersPerSide THEN targetOrdersPerSide - r.sells ELSE 0

\* the notional of the BUY orders of the local tracking map, as submitted
TrackedBuyNotional ==
    SumLocks({o \in exOrders : o.orderId \in activeOrders /\ o.side = "BUY"})

\* C12: the per-order size of a cycle is the share of 80% of the free USDT less
\* the notional of the tracked BUY orders, divided among needBuys + needSells
\* orders (capped), not among a fixed number of orders.
C12_SizedByShortfall ==
    [][\A c \in DOMAIN cyc :
          (cyc[c].pc = "sizing" /\ cyc'[c].pc \notin {"sizing", "done"})
              => cyc'[c].safeOrderSizeUSD =
                    PerOrderUSD(UsableUSD(exFreeUSDT, RZero, TrackedBuyNotional),
                                R(4, 5), RInt(10),
                                NeedBuys(cyc[c]) + NeedSells(cyc[c]))]_vars

\* the cap on the notional of one order that the specification and the test name
SpecifiedMaxPerOrderCap == RInt(20)

\* C13: every book-depth order has the notional min(20, 0.8 x free USDT / 60),
\* which is 20 on an empty book with 5000 USDT free.
C13_BookDepthNotional ==
    \A c \in DOMAIN cyc :
        (Submitted(c) /\ cyc[c].phase \in {"bookBuys", "bookSells", "sells"})
            => RMul(PlacementAmount(cyc[c]), PlacementPrice(cyc[c]))
                  = RMin(SpecifiedMaxPerOrderCap,
                         RDiv(RMul(R(4, 5), cyc[c].availableUSDT),
                              RInt(targetOrdersPerSide * 2)))

\* the pending orders of a side, and the cancelOrder calls of a cycle for a side
PendingOf(side) == {o \in exOrders : o.side = side}
CancelCalls(c, side) ==
    Cardinality({k \in DOMAIN cyc[c].cancels : cyc[c].cancels[k].side = side})
\* the cycle is through with the open orders and has not placed an order yet
Trimmed(c) == cyc[c].pc = "sizing"

\* C14: on a book with b > target BUY and s > target SELL orders a cycle issues
\* exactly b - target cancelOrder calls for BUY orders and s - target for SELL
\* orders, and exactly target orders remain on each side.
C14_ExcessCancelled ==
    \A c \in DOMAIN cyc :
        LET b == Cardinality(PendingOf("BUY")) + CancelCalls(c, "BUY")
            s == Cardinality(PendingOf("SELL")) + CancelCalls(c, "SELL")
        IN  (Trimmed(c) /\ b > targetOrdersPerSide /\ s > targetOrdersPerSide)
                => /\ CancelCalls(c, "BUY") = b - targetOrdersPerSide
                   /\ CancelCalls(c, "SELL") = s - targetOrdersPerSide
                   /\ Cardinality(PendingOf("BUY")) = targetOrdersPerSide
                   /\ Cardinality(PendingOf("SELL")) = targetOrdersPerSide

\* C15: the orders a cycle cancelled on a side are older than every order it
\* retained on that side, however the exchange lists the open orders.
C15_OldestCancelled ==
    \A c \in DOMAIN cyc :
        Trimmed(c) =>
            \A k \in DOMAIN cyc[c].cancels : \A o \in PendingOf(cyc[c].cancels[k].side) :
                ListedBefore(cyc[c].cancels[k].orderId, o.orderId)

\* C16: a cancelOrder call of a cycle, in the trimming loops or in the loop over
\* the oldest tracked orders, is for an order of a side that holds more than the
\* target number of open orders when the call is made.
C16_CancelOnlyAboveTarget ==
    [][\A c \in DOMAIN cyc :
          (cyc[c].pc \in {"cancelOrder", "cancelOld"} /\ cyc'[c].cancels # cyc[c].cancels)
              => Cardinality(PendingOf(Head(cyc[c].excess).side)) > targetOrdersPerSide]_vars

\* a side's shortfall: max(0, target - open count of that side)
Shortfall(open) == IF open < targetOrdersPerSide THEN targetOrdersPerSide - open ELSE 0

\* the calls of placeSellOrder outside the wash loop that a cycle has made so
\* far, the one in progress included: those of the loop of lines 284-293 and,
\* after the wash loop, those of the loop of lines 312-322
BookDepthSellAttempts(r) ==
    IF r.phase = "bookSells" THEN r.i + 1
    ELSE IF r.phase = "wash" THEN Shortfall(r.sells)
    ELSE IF r.phase = "sells" THEN Shortfall(r.sells) + r.i + 1
    ELSE 0

\* C17: a cycle calls placeSellOrder outside the wash loop at most shortfall
\* times, the shortfall being max(0, target - open SELL count), and makes none of
\* these calls once the wash loop was entered.
C17_ShortfallBeforeWash ==
    \A c \in DOMAIN cyc :
        /\ BookDepthSellAttempts(cyc[c]) <= Shortfall(cyc[c].sells)
        /\ cyc[c].phase # "sells"

\* C18: a cycle is in its wash loop only if the open orders it fetched held at
\* least the target number of BUY orders and of SELL orders.
C18_WashOnlyAtTarget ==
    \A c \in DOMAIN cyc :
        cyc[c].phase = "wash"
            => cyc[c].buys >= targetOrdersPerSide /\ cyc[c].sells >= targetOrdersPerSide

\* the invocations of placeVolumeOrders that have not returned
InProgress == {c \in DOMAIN cyc : cyc[c].pc # "done"}

\* C19: at most one invocation of placeVolumeOrders is in progress at any time,
\* however the timer interval relates to the duration of a cycle.
C19_OneCycleInProgress == Cardinality(InProgress) <= 1

\* a placeOrder call of a book-depth loop of cycle c throws: the call returns
\* and the exchange has taken no order and moved no funds
BookDepthOrderFails(c) ==
    /\ cyc[c].pc = "placeOrder" /\ cyc[c].phase \in {"bookBuys", "bookSells", "sells"}
    /\ cyc'[c] # cyc[c]
    /\ exOrders' = exOrders /\ exFreeUSDT' = exFreeUSDT /\ exFreeEPWX' = exFreeEPWX

\* the open count a book-depth loop runs against
CountedOpen(r) == IF r.phase = "bookBuys" THEN r.buys ELSE r.sells

\* C20: when placeOrder throws for an order of a book-depth loop, the order is
\* neither tracked nor counted in orderCount, and the loop goes on with its next
\* order; after the last order of the loop the cycle goes on with what follows
\* the loop.
C20_FailedOrderSkipped ==
    [][\A c \in DOMAIN cyc :
          BookDepthOrderFails(c)
              => /\ activeOrders' = activeOrders
                 /\ orderPrices' = orderPrices
                 /\ volumeStats'.orderCount = volumeStats.orderCount
                 /\ IF cyc[c].i + 1 < Shortfall(CountedOpen(cyc[c]))
                    THEN /\ cyc'[c].pc = "getBalances"
                         /\ cyc'[c].phase = cyc[c].phase
                         /\ cyc'[c].i = cyc[c].i + 1
                    ELSE cyc[c].phase # "sells" => cyc'[c].pc = "getBalances"]_vars

\* a book-depth loop is at its second order after the placeOrder call of its
\* first order threw
C20_Witness ==
    \E c \in DOMAIN cyc :
        /\ cyc[c].phase = "bookBuys" /\ cyc[c].pc = "getBalances" /\ cyc[c].i = 1
        /\ cyc[c].rejected = 1 /\ cyc[c].placed = 0
        /\ activeOrders = {} /\ volumeStats.orderCount = 0

(***************************************************************************)
(* Tracker and lifecycle claims                                            *)
(***************************************************************************)
\* a step in which an awaited call of an invocation fails: an exchange call,
\* or the oracle of a cycle
CallFails ==
    \/ exEvents' < exEvents
    \/ \E c \in DOMAIN cyc : cyc[c].pc = "fetchPrice" /\ cyc'[c].pc = "done" /\ ~dexFeed.ok

\* C21: when a call of the exchange client or of the oracle fails in a running
\* bot, the bot keeps running with both timers armed and the failure ends or
\* skips only within its own invocation; every later firing of a timer of the
\* running bot starts a new invocation.
C21_FailuresIsolated ==
    [][/\ (isRunning /\ CallFails)
            => /\ isRunning' /\ orderTimer' /\ updateTimer'
               /\ Cardinality({c \in DOMAIN cyc : cyc'[c] # cyc[c]})
                    + Cardinality({t \in DOMAIN trk : trk'[t] # trk[t]}) <= 1
       /\ (isRunning /\ ticksLeft' < ticksLeft)
            => Len(cyc') = Len(cyc) + 1 /\ cyc'[Len(cyc')].pc = "fetchPrice"
       /\ (isRunning /\ Len(trk') > Len(trk))
            => trk'[Len(trk')].pc \in {"getOrder", "done"}]_vars

\* the oracle failed in the first cycle and getOrder was rate-limited in the
\* first monitoring invocation; the second cycle and the second monitoring
\* invocation have run
C21_Witness ==
    /\ isRunning /\ ~dexFeed.ok
    /\ Len(cyc) = 2 /\ cyc[2].pc = "done"
    /\ Len(trk) >= 2 /\ trk[1].delays # <<>> /\ trk[2].pc = "done"

\* C22: when cancelAllOrders or the balance fetch of logBalances fails during
\* start(), start() still sets isRunning and arms the order timer and the
\* monitoring timer.
C22_StartDegrades ==
    [][(~isRunning /\ exEvents' < exEvents)
          => isRunning' /\ orderTimer' /\ updateTimer']_vars

\* start() has returned after its cancelAllOrders failed: the orders of the
\* earlier run are still pending, the bot runs with both timers armed
C22_Witness ==
    /\ isRunning /\ orderTimer /\ updateTimer
    /\ cyc = <<>> /\ exEvents = 0 /\ exOrders # {}

\* C23: stop() resets isRunning, clears the order timer and the monitoring
\* timer and calls cancelAllOrders once: either every pending order is
\* cancelled and the tracking map cleared, or the call fails and stop() returns
\* all the same, with both timers cleared and orders and tracking map as they
\* were.
C23_StopClears ==
    [][(isRunning /\ ~isRunning')
          => /\ ~orderTimer' /\ ~updateTimer'
             /\ \/ exOrders' = {} /\ activeOrders' = {} /\ exEvents' = exEvents
                \/ /\ exEvents' = exEvents - 1
                   /\ exOrders' = exOrders /\ activeOrders' = activeOrders]_vars

\* stop() has returned after its cancelAllOrders failed: orders are still
\* pending and tracked, the timers are cleared
C23_Witness ==
    /\ ~isRunning /\ ~orderTimer /\ ~updateTimer
    /\ exOrders # {} /\ activeOrders # {} /\ exEvents = TrackerEvents - 1 /\ trk = <<>>

\* the step in which a monitoring invocation handles a FILLED answer for the
\* order at position k of its batch, tracked with an intended price of 1.00
FillCounted(t, side) ==
    /\ trk[t].pc = "getOrder" /\ trk'[t] # trk[t]
    /\ realFills' + washTrades' = realFills + washTrades + 1
    /\ trk[t].batch[trk[t].k] \in DOMAIN orderPrices
    /\ orderPrices[trk[t].batch[trk[t].k]] = [side |-> side, price |-> RInt(1)]

\* C24: a fill of a BUY or a SELL order with intended price 1.00 is counted in
\* washTrades when it is reported at 1.003 and in realFills when it is reported
\* at 1.05; the price of the fill is read off the volume booked for a fill of
\* one unit.
C24_FillClassified ==
    [][\A t \in DOMAIN trk : \A side \in {"BUY", "SELL"} :
          FillCounted(t, side)
              => /\ volumeStats'.totalVolume = RAdd(volumeStats.totalVolume, R(1003, 1000))
                      => washTrades' = washTrades + 1
                 /\ volumeStats'.totalVolume = RAdd(volumeStats.totalVolume, R(105, 100))
                      => realFills' = realFills + 1]_vars

\* the order a monitoring invocation polls in this step
Polled(t) == trk[t].batch[trk[t].k]

\* C25: the step in which a monitoring invocation handles the answer for a
\* tracked order removes the order from the tracking map exactly when the
\* exchange answered and no longer holds the order (the client reports a
\* pending order as NEW and never as FILLED or CANCELED); after a rate limit or
\* another error the order stays tracked.  An intended-price record goes with
\* its order, and no other order enters or leaves the tracking map.
C25_RemovedIffGone ==
    [][\A t \in DOMAIN trk :
          (trk[t].pc = "getOrder" /\ trk'[t] # trk[t] /\ Polled(t) \in activeOrders)
              => /\ Polled(t) \notin activeOrders'
                      <=> /\ exEvents' = exEvents
                          /\ \A o \in exOrders : o.orderId # Polled(t)
                 /\ activeOrders' \ {Polled(t)} = activeOrders \ {Polled(t)}
                 /\ Polled(t) \notin activeOrders'
                      => Polled(t) \notin DOMAIN orderPrices']_vars

\* the tracked order <<1, k>> is no longer pending at the exchange
Gone(k) == <<1, k>> \in activeOrders /\ \A o \in exOrders : o.orderId # <<1, k>>

CeilDiv(n, d) == (n + d - 1) \div d

\* how many of the invocations t .. t + w - 1 polled the order
TimesPolled(orderId, t, w) ==
    Cardinality({u \in t..(t + w - 1) :
                    \E i \in DOMAIN trk[u].batch : trk[u].batch[i] = orderId})

\* C27: an invocation of the Tracker polls at most 5 orders, and over any
\* ceil(n/5) consecutive invocations that found the same n tracked orders, as
\* did the invocation after them, every one of these orders is polled exactly
\* once.
C27_RotationCoversAll ==
    \A t \in DOMAIN trk :
        /\ Len(trk[t].batch) <= batchSize
        /\ LET n == Len(trk[t].orderIds)
               w == CeilDiv(n, batchSize)
           IN  (/\ n > 0 /\ t + w <= Len(trk)
                /\ \A u \in t..(t + w) : trk[u].orderIds = trk[t].orderIds)
               => \A i \in 1..n : TimesPolled(trk[t].orderIds[i], t, w) = 1

\* invocation t waits after a rate-limited answer in this step
Delayed(t) == Len(trk'[t].delays) > Len(trk[t].delays)

\* C28: the k-th wait of an invocation after a 429 answer lasts
\* min(1000 * 2^(k-1), 15000) ms, counted anew in every invocation; the step
\* that waits leaves the tracking map and the intended prices as they are and
\* moves the invocation to the next order of its batch.
C28_BackoffSchedule ==
    [][\A t \in DOMAIN trk :
          Delayed(t) =>
              LET k == Len(trk'[t].delays)
              IN  /\ k = Len(trk[t].delays) + 1
                  /\ trk'[t].delays[k] = Min(InitialBackoff * 2^(k - 1), MaxBackoff)
                  /\ trk'[t].k = trk[t].k + 1
                  /\ trk'[t].batch = trk[t].batch
                  /\ trk[t].batch[trk[t].k] \in activeOrders
                        => trk[t].batch[trk[t].k] \in activeOrders'
                  /\ UNCHANGED <<activeOrders, orderPrices>>]_vars

\* all five calls of a batch were rate-limited, the last wait being the capped
\* one, in an invocation other than the first; the five orders are all tracked
C28_Witness ==
    \E t \in DOMAIN trk :
        /\ t > 1
        /\ trk[t].delays = <<1000, 2000, 4000, 8000, 15000>>
        /\ \A i \in DOMAIN trk[t].batch : trk[t].batch[i] \in activeOrders

\* the latest invocation of placeVolumeOrders to have reached its wash loop has
\* left it
WashLoopLeft(c) ==
    /\ cyc[c].pairs >= 0 /\ cyc[c].phase # "wash"
    /\ \A d \in DOMAIN cyc : d > c => cyc[d].pairs < 0

\* a record of washTradePairsActive names two orders of cycle c placed at the
\* reference price, a BUY and a SELL, with the price and amount of the wash loop
RecordOfCycle(p, c) ==
    /\ p.buyOrderId[1] = c /\ p.sellOrderId[1] = c
    /\ p.price = cyc[c].priceReference
    /\ p.amount = RDiv(cyc[c].safeOrderSizeUSD, cyc[c].priceReference)
    /\ p.buyOrderId \in DOMAIN orderPrices /\ p.sellOrderId \in DOMAIN orderPrices
    /\ orderPrices[p.buyOrderId] = [side |-> "BUY", price |-> p.price]
    /\ orderPrices[p.sellOrderId] = [side |-> "SELL", price |-> p.price]

\* C29: washTradePairsActive never holds more records than there are wash pairs
\* in a cycle, and after the wash loop of a cycle it holds one record for each of
\* the cycle's pairs whose two legs both returned an order id and nothing else,
\* each with the price and the amount of its legs.
C29_WashPairsTracked ==
    /\ Len(washTradePairsActive) <= washTradePairs
    /\ \A c \in DOMAIN cyc :
          WashLoopLeft(c) =>
              /\ Len(washTradePairsActive) = cyc[c].pairs
              /\ \A k \in DOMAIN washTradePairsActive :
                    /\ RecordOfCycle(washTradePairsActive[k], c)
                    /\ \A j \in DOMAIN washTradePairsActive :
                          j # k => washTradePairsActive[j] # washTradePairsActive[k]

\* the price getTicker reports: the exchange trades at the price of the oracle
TickerPrice == dexFeed.price

\* the low-balance threshold and the band of a market-value order of the tests
LowBalanceUSD == RInt(500)
MarketValueBand == R(5, 1000)

\* the call in progress in cycle c is a placeSellOrder outside the wash loop
\* whose price is more than 0.5% away from the ticker, on an account with less
\* than 500 USDT free
GatedSell(c) ==
    /\ cyc[c].pc = "getBalances" /\ cyc[c].side = "SELL" /\ cyc[c].phase # "wash"
    /\ RLt(exFreeUSDT, LowBalanceUSD)
    /\ RLt(RMul(MarketValueBand, TickerPrice),
           RAbs(RSub(PlacementPrice(cyc[c]), TickerPrice)))

\* C30: placeSellOrder for an order outside the wash loop does not go on to
\* placeOrder when the account has less than 500 USDT free and the price of the
\* order is more than 0.5% away from the ticker.
C30_LowBalanceSellGate ==
    [][\A c \in DOMAIN cyc : GatedSell(c) => cyc'[c].pc # "placeOrder"]_vars

(***************************************************************************)
(* Pricing, lifecycle and bookkeeping claims                               *)
(***************************************************************************)
\* the orders placeBuyOrder or placeSellOrder records in this step
NewlyPlaced == DOMAIN orderPrices' \ DOMAIN orderPrices

\* the price of the i-th order of a book-depth loop: 1% from the reference
\* price, 0.02% further with every order
StaggeredPrice(P, side, i) ==
    IF side = "BUY" THEN RMul(P, RSub(R(99, 100), R(2 * i, 10000)))
    ELSE RMul(P, RAdd(R(101, 100), R(2 * i, 10000)))

\* the book-depth orders of a side a cycle has placed
BookDepthPlaced(c, side) ==
    {id \in DOMAIN orderPrices :
        /\ id[1] = c /\ orderPrices[id].side = side
        /\ orderPrices[id].price # cyc[c].priceReference}

C32_TimersReferenced ==
    unreferenced.orderTimers = 0 /\ unreferenced.updateTimers = 0

\* C33: once stop() has cleared the flag and called cancelAllOrders, no order
\* of the strategy reaches the exchange any more: the pending orders of the
\* account do not grow while the bot is stopped.
C33_NothingPlacedAfterStop ==
    [][~isRunning => exOrders' \subseteq exOrders]_vars

\* C34: a Guard call that allows the orders returns a per-order size above
\* zero; a result with a per-order size of zero or less is a rejection.
C34_AllowedIsPositive ==
    lastCall.rev # "none" =>
        (lastCall.out.allowed <=> RLt(RZero, lastCall.out.perOrderUSD))

\* what the latest Guard call authorises: max(1, totalOrdersToPlace) orders of
\* the per-order size it returned
Authorised == RMul(RInt(IF options.totalOrdersToPlace < 1 THEN 1
                        ELSE options.totalOrdersToPlace),
                   lastCall.out.perOrderUSD)

\* the latest Guard call allowed the orders, with a share of the usable funds
\* between 0 and 1
AllowedWithinShare ==
    LET orderSizePercent == OrDefault(options.orderSizePercent, DefaultOrderSizePercent)
    IN  /\ lastCall.rev # "none" /\ lastCall.out.allowed
        /\ RLe(RZero, orderSizePercent) /\ RLe(orderSizePercent, RInt(1))

\* C35: the orders an allowing Guard call authorises, max(1, totalOrdersToPlace)
\* times the per-order size, cost no more than the usable amount it reports,
\* which is no more than the free balance less the fee buffer and the amount
\* reserved for active orders.
C35_AuthorisedWithinUsable ==
    AllowedWithinShare =>
        /\ RLe(Authorised, lastCall.out.usableUSD)
        /\ RLe(lastCall.out.usableUSD,
               RSub(RSub(options.freeUSDT,
                         OrDefault(options.feeBufferUSD, DefaultFeeBufferUSD)),
                    OrDefault(options.reservedForActiveOrdersUSD, RZero)))

\* two orders that take the whole usable amount between them have been allowed
C35_Witness ==
    /\ AllowedWithinShare
    /\ options.totalOrdersToPlace = 2
    /\ Authorised = lastCall.out.usableUSD
    /\ RLt(RZero, Authorised)

\* C36: in every reachable state this.orderPrices and this.activeOrders hold
\* exactly the same order ids.
C36_SameOrderIds == DOMAIN orderPrices = activeOrders

\* the value of all the trades the exchange made of the bot's orders
RECURSIVE SumVolumes(_)
SumVolumes(S) ==
    IF S = {} THEN RZero
    ELSE LET d == CHOOSE x \in S : TRUE
         IN  RAdd(d.volume, SumVolumes(S \ {d}))

WashLoopDone(c) == cyc[c].pairs >= 0 /\ cyc[c].phase # "wash"

\* C38: in every cycle as many wash BUY orders as wash SELL orders are
\* submitted to the exchange: while the wash loop runs a BUY leg waits at most
\* for its SELL leg, and no leg is left alone once the loop is over.
C38_WashLegsPaired ==
    \A c \in DOMAIN cyc :
        /\ cyc[c].washLegs.SELL <= cyc[c].washLegs.BUY
        /\ cyc[c].washLegs.BUY <= cyc[c].washLegs.SELL + 1
        /\ WashLoopDone(c) => cyc[c].washLegs.BUY = cyc[c].washLegs.SELL

\* totalVolume is the sum of buyVolume and sellVolume in stats
Balanced(stats) == stats.totalVolume = RAdd(stats.buyVolume, stats.sellVolume)

\* C39: totalVolume = buyVolume + sellVolume before and after every step of the
\* placement cycle, of pollOrderFills and of the Tracker, and no step decreases
\* totalVolume, buyVolume or sellVolume.
C39_VolumesAddUp ==
    [][/\ Balanced(volumeStats) /\ Balanced(volumeStats')
       /\ RLe(volumeStats.totalVolume, volumeStats'.totalVolume)
       /\ RLe(volumeStats.buyVolume, volumeStats'.buyVolume)
       /\ RLe(volumeStats.sellVolume, volumeStats'.sellVolume)]_vars

\* a trade was added by pollOrderFills and a fill by the Tracker, and both sides
\* have volume
C39_Witness ==
    /\ Deals # {}
    /\ RLt(SumVolumes(Deals), volumeStats.totalVolume)
    /\ RLt(RZero, volumeStats.buyVolume) /\ RLt(RZero, volumeStats.sellVolume)

=============================================================================
